---- MODULE Spec2Model ----
(***************************************************************************)
(* Lunar_X: the connection manager (core/connection.py), the plugin        *)
(* registry and dispatcher (core/plugin_manager.py) and the message        *)
(* pre-processing of the runtime (core/bot.py), as state machines.         *)
(*                                                                         *)
(* SpecConn  : one WebSocketConnection with its reader task, the initial   *)
(*             connect, reconnects, one send call and close; FairConn adds *)
(*             the progress of websockets.connect and asyncio.sleep.       *)
(* SpecSend  : concurrent send calls over a transport that stays up.       *)
(* SpecPlug  : one PluginManager with its plugin directory, the file       *)
(*             watcher, reloads and one dispatch at a time.                *)
(*             SpecDispatch leaves out the native commands, SpecCommands   *)
(*             the watcher, SpecToggle the watcher and the events;         *)
(*             FairWatch adds the progress of the watcher.                 *)
(* SpecReader: the reader over every kind of inbound text, a consumer      *)
(*             whose dispatch can raise, and one send call that its task   *)
(*             can be cancelled out of.                                    *)
(* SpecShutdown: restart() and the restart command over a live session.    *)
(* SpecEntry : the dispatch of notices and lifecycle events.               *)
(* SpecList  : get_plugin_list over directories and registries.            *)
(* SpecWatch : the watcher thread step by step and stop_file_monitoring;   *)
(*             FairStop adds the progress of the thread.                   *)
(* SpecFactory: EventFactory.create_event over the tags of a frame.        *)
(* SpecLife  : run() from the connect to the end of _listen_events.        *)
(* SpecHandler: a handler that sends a request during its dispatch;        *)
(*             FairHandler adds the progress of the loop.                  *)
(* SpecPerm  : the native commands issued by users of every level.         *)
(* SpecNative: _handle_message_event over native and other messages.       *)
(***************************************************************************)
EXTENDS Integers, Sequences, FiniteSets, TLC

(***************************************************************************)
(* Bounds of the model.                                                    *)
(***************************************************************************)
NumCallers == 2        \* concurrent send(wait_for_response=True) calls
TimeoutTicks == 1      \* clock ticks in one request timeout window
MaxQueue == 2          \* event frames the environment lets pile up in the queue
MaxLate == 1             \* late answers kept in the queue when only send calls run
MaxReconnectFails == 6 \* failed attempts the environment makes one reconnect see
MaxDrops == 1          \* unexpected transport closures
NumUnits == 2          \* plugin files in the plugin directory
MaxEdits == 1          \* saves of plugin files while the runtime is up
MaxItems == 2          \* entries of a directory get_plugin_list is applied to

(***************************************************************************)
(* Program constants.                                                      *)
(***************************************************************************)
max_retries == 5

Callers == 1..NumCallers
Ids == 1..NumCallers          \* request ids handed out by uuid4, in order
ForeignId == NumCallers + 1   \* an id no send call of this session registered
NoId == 0                     \* a frame without echo.request_id

\* the data member of a decoded frame
Payloads == {[x |-> 1]}

\* decoded frames: echo.request_id, status and data
Frames == [rid : (0..ForeignId), status : {"ok", "error"}, data : Payloads]
Sentinel == [rid |-> NoId, status |-> "None", n |-> 0]
NoFrame == [rid |-> NoId, status |-> "none"]

VARIABLES
  conn,   \* the WebSocketConnection object and its connect/close/reader tasks
  calls,  \* the send(wait_for_response=True) calls
  pm,     \* the PluginManager object, the plugin directory and the watcher
  disp    \* the handle_event call in flight

vars == <<conn, calls, pm, disp>>

(***************************************************************************)
(* WebSocketConnection.__init__                                            *)
(*   websocket        "None" | "open" | "closedErr" | "closedOk"           *)
(*   listener_task    the _listener_task attribute: "None" | "task"        *)
(*   reader           the latest reader task:                              *)
(*                    "none" | "reading" | "reconnect" | "done"            *)
(*   readers          the number of tasks inside the iteration over the     *)
(*                    transport in _listen_loop                            *)
(*   cancel_req       cancel() was called on the reader task, not yet      *)
(*                    delivered                                            *)
(*   pending_requests keys of _pending_requests; fut: their futures        *)
(*   conn_pc          connect(): "init" | "loop" | "attempt" |             *)
(*                    "selfawait" | "sleep" | "idle"                       *)
(*   connect_result   what the connect() call of bot.run returned:          *)
(*                    "none" | "True" | "False"                            *)
(*   close_pc         close(): "idle" | "await_listener" | "ws" |          *)
(*                    "sleep" | "done"                                     *)
(*   close_target     the task close() awaits: "none" | "live" |           *)
(*                    "finished"                                           *)
(*   sent             ids whose request frame went out on the transport    *)
(*   consumer         listen(): "listening" | "stopped"                    *)
(*   dispatching      the frame _listen_events is dispatching: its rank    *)
(*                    among the queued frames when it was taken, 0 = none  *)
(*   wait_time        the argument of the asyncio.sleep connect() is in,   *)
(*                    0 outside the sleep                                  *)
(*   logged           the kinds of frame the except clauses of the reader  *)
(*                    logged and dropped                                   *)
(*   created          the event create_event built from a frame            *)
(*   handed           where _handle_event passed the event in dispatch:    *)
(*                    "none" | "native" | "dispatcher"                     *)
(* A queued frame carries in n its rank of arrival among the frames that   *)
(* are in the queue.                                                       *)
(***************************************************************************)
\* no frame has been turned into an event yet
NoCreated == [made |-> FALSE]

InitConn ==
  conn = [websocket |-> "None", is_closing |-> FALSE, listener_task |-> "None",
          reader |-> "none", readers |-> 0, cancel_req |-> FALSE,
          pending_requests |-> {},
          fut |-> [i \in Ids |-> [st |-> "none", val |-> NoFrame]],
          message_queue |-> <<>>, next_id |-> 1,
          conn_pc |-> "init", retries |-> 0, is_reconnect |-> FALSE,
          connect_result |-> "none", attempts |-> 0, drops |-> 0,
          close_pc |-> "idle", close_target |-> "none",
          sent |-> {}, consumer |-> "listening", dispatching |-> 0,
          logged |-> {}, wait_time |-> 0, created |-> NoCreated,
          handed |-> "none"]

InitCalls ==
  calls = [c \in Callers |-> [pc |-> "idle", rid |-> NoId, timer |-> 0,
                              timed_out |-> FALSE, outcome |-> "none",
                              resp |-> NoFrame]]

FutDone(f) == f.st \in {"result", "exception", "cancelled"}

\* ListenFinally draining the queue whether or not the session is closing
ListenFinallyAlways(q, closing) == <<Sentinel>>

\* the finally block of _listen_loop: drain the queue and seed the sentinel
\* when the session is closing
ListenFinally(q, closing) == IF closing THEN <<Sentinel>> ELSE q

\* message_queue.put(f): f is the youngest of the frames in the queue
put(q, f) ==
  Append(q, [rid |-> f.rid, status |-> f.status,
             n |-> Cardinality({i \in DOMAIN q : q[i] # Sentinel}) + 1])

\* message_queue.get(): the queue once its oldest element is taken
AfterGet(q) ==
  IF Head(q) = Sentinel THEN Tail(q)
  ELSE [i \in 1..(Len(q) - 1) |->
          IF q[i + 1] = Sentinel THEN Sentinel
                                 ELSE [q[i + 1] EXCEPT !.n = @ - 1]]

\* the task close() awaits has finished when a reader task ends
TargetAfterReaderEnd(t) == IF t = "live" THEN "finished" ELSE t

(***************************************************************************)
(* connect(is_reconnect)                                                   *)
(***************************************************************************)
\* bot.run calls connect() once
ConnectCall ==
  /\ conn.conn_pc = "init"
  /\ conn' = [conn EXCEPT !.conn_pc = "loop", !.retries = 0,
                          !.is_reconnect = FALSE, !.attempts = 0]
  /\ UNCHANGED <<calls, pm, disp>>

\* ConnectLoop with the bound on retries applied to a reconnect as well
ConnectLoopBounded ==
  /\ conn.conn_pc = "loop"
  /\ ~(conn.is_reconnect /\ conn.cancel_req)
  /\ IF conn.retries >= max_retries \/ conn.is_closing
       THEN IF conn.is_reconnect
              THEN conn' = [conn EXCEPT
                     !.conn_pc = "idle",
                     !.retries = 0, !.attempts = 0,
                     !.reader = "done",
                     !.close_target = TargetAfterReaderEnd(@),
                     !.message_queue =
                        ListenFinally(Append(@, Sentinel), conn.is_closing)]
              ELSE conn' = [conn EXCEPT
                     !.conn_pc = "idle", !.connect_result = "False",
                     !.retries = 0, !.attempts = 0]
       ELSE conn' = [conn EXCEPT !.conn_pc = "attempt", !.attempts = @ + 1]
  /\ UNCHANGED <<calls, pm, disp>>

\* head of the while loop: the bound test and the is_closing test; a False
\* returned into _reconnect_loop queues the sentinel and ends _listen_loop
ConnectLoop ==
  /\ conn.conn_pc = "loop"
  /\ ~(conn.is_reconnect /\ conn.cancel_req)
  /\ IF (~conn.is_reconnect /\ conn.retries >= max_retries) \/ conn.is_closing
       THEN IF conn.is_reconnect
              THEN conn' = [conn EXCEPT
                     !.conn_pc = "idle",
                     !.retries = 0, !.attempts = 0,
                     !.reader = "done",
                     !.close_target = TargetAfterReaderEnd(@),
                     !.message_queue =
                        ListenFinally(Append(@, Sentinel), conn.is_closing)]
              ELSE conn' = [conn EXCEPT
                     !.conn_pc = "idle", !.connect_result = "False",
                     !.retries = 0, !.attempts = 0]
       ELSE conn' = [conn EXCEPT !.conn_pc = "attempt", !.attempts = @ + 1]
  /\ UNCHANGED <<calls, pm, disp>>

\* websockets.connect succeeded; on a reconnect the reader task cancels and
\* awaits itself before the new reader task is created
ConnectAttemptOk ==
  /\ conn.conn_pc = "attempt"
  /\ ~(conn.is_reconnect /\ conn.cancel_req)
  /\ IF conn.is_reconnect /\ conn.listener_task = "task" /\ conn.reader # "done"
       THEN conn' = [conn EXCEPT !.websocket = "open", !.conn_pc = "selfawait",
                                 !.cancel_req = TRUE]
       ELSE conn' = [conn EXCEPT !.websocket = "open", !.conn_pc = "idle",
                                 !.listener_task = "task", !.reader = "reading",
                                 !.readers = @ + 1,
                                 !.connect_result = "True",
                                 !.retries = 0, !.attempts = 0]
  /\ UNCHANGED <<calls, pm, disp>>

\* the CancelledError of the self-await is swallowed, the new reader task is
\* created and the old one runs to the end of _listen_loop
ConnectSelfAwaitDone ==
  /\ conn.conn_pc = "selfawait"
  /\ conn' = [conn EXCEPT !.conn_pc = "idle", !.cancel_req = FALSE,
                          !.listener_task = "task", !.reader = "reading",
                          !.readers = @ + 1,
                          !.connect_result = "True",
                          !.retries = 0, !.attempts = 0,
                          !.close_target = TargetAfterReaderEnd(@),
                          !.message_queue = ListenFinally(@, conn.is_closing)]
  /\ UNCHANGED <<calls, pm, disp>>

Min(a, b) == IF a <= b THEN a ELSE b

\* wait_time without the cap
wait_time_uncapped(retries) == 2 ^ retries

\* wait_time = min(2 ** retries, 60)
wait_time(retries) == Min(2 ^ retries, 60)

\* ConnectAttemptFail without "retries += 1"
ConnectAttemptFailNoCount ==
  /\ conn.conn_pc = "attempt"
  /\ ~(conn.is_reconnect /\ conn.cancel_req)
  /\ conn.is_reconnect => conn.retries < MaxReconnectFails
  /\ IF conn.retries + 1 < max_retries \/ conn.is_reconnect
       THEN conn' = [conn EXCEPT !.conn_pc = "sleep",
                                 !.wait_time = wait_time(conn.retries)]
       ELSE conn' = [conn EXCEPT !.retries = 0, !.attempts = 0,
                                 !.conn_pc = "idle", !.connect_result = "False"]
  /\ UNCHANGED <<calls, pm, disp>>

\* websockets.connect raised
ConnectAttemptFail ==
  /\ conn.conn_pc = "attempt"
  /\ ~(conn.is_reconnect /\ conn.cancel_req)
  /\ conn.is_reconnect => conn.retries < MaxReconnectFails
  /\ IF conn.retries + 1 < max_retries \/ conn.is_reconnect
       THEN conn' = [conn EXCEPT !.retries = @ + 1, !.conn_pc = "sleep",
                                 !.wait_time = wait_time(conn.retries + 1)]
       ELSE conn' = [conn EXCEPT !.retries = 0, !.attempts = 0,
                                 !.conn_pc = "idle", !.connect_result = "False"]
  /\ UNCHANGED <<calls, pm, disp>>

\* asyncio.sleep(wait_time) is over
ConnectSleepDone ==
  /\ conn.conn_pc = "sleep"
  /\ ~(conn.is_reconnect /\ conn.cancel_req)
  /\ conn' = [conn EXCEPT !.conn_pc = "loop", !.wait_time = 0]
  /\ UNCHANGED <<calls, pm, disp>>

(***************************************************************************)
(* _listen_loop and _reconnect_loop                                        *)
(***************************************************************************)
\* ListenHandle resolving the oldest unresolved request instead of the one
\* the frame names
ListenHandleOldest(c, f) ==
  LET open == {i \in c.pending_requests : ~FutDone(c.fut[i])} IN
  IF f.rid # NoId /\ open # {}
    THEN LET i == CHOOSE j \in open : \A k \in open : j <= k IN
         [c EXCEPT !.fut[i] =
            IF f.status = "error" THEN [st |-> "exception", val |-> f]
                                  ELSE [st |-> "result", val |-> f]]
    ELSE [c EXCEPT !.message_queue = put(@, f)]

\* ListenHandle enqueueing the frame that resolves a request as well
ListenHandleBoth(c, f) ==
  IF f.rid # NoId /\ f.rid \in c.pending_requests /\ ~FutDone(c.fut[f.rid])
    THEN [c EXCEPT !.fut[f.rid] =
            IF f.status = "error" THEN [st |-> "exception", val |-> f]
                                  ELSE [st |-> "result", val |-> f],
                   !.message_queue = put(@, f)]
    ELSE [c EXCEPT !.message_queue = put(@, f)]

\* ListenHandle leaving every frame, answers included, to the consumer
ListenHandleQueues(c, f) == [c EXCEPT !.message_queue = put(@, f)]

\* one decoded frame: resolve or fail the pending future, or enqueue
ListenHandle(c, f) ==
  IF f.rid # NoId /\ f.rid \in c.pending_requests /\ ~FutDone(c.fut[f.rid])
    THEN [c EXCEPT !.fut[f.rid] =
            IF f.status = "error" THEN [st |-> "exception", val |-> f]
                                  ELSE [st |-> "result", val |-> f]]
    ELSE [c EXCEPT !.message_queue = put(@, f)]

\* a frame the transport can deliver: an event, a foreign echo, or the
\* answer to a request that went out
Deliverable(f) ==
  \/ f.rid \in conn.sent
  \/ f.rid \in {NoId, ForeignId} /\ f.status = "ok"

ListenFrame(f) ==
  /\ conn.reader = "reading" /\ conn.websocket = "open" /\ ~conn.cancel_req
  /\ Deliverable(f)
  /\ Len(ListenHandle(conn, f).message_queue) <= MaxQueue
  /\ conn' = ListenHandle(conn, f)
  /\ UNCHANGED <<calls, pm, disp>>

\* frames the handling of which raises: text json.loads rejects
\* (JSONDecodeError), and text that decodes to a JSON number or null, for
\* which the test 'echo' in data raises TypeError
BadFrames == {"undecodable", "scalar"}

\* ListenBadFrame ending the iteration over the transport
ListenBadFrameEnds(k) ==
  /\ conn.reader = "reading" /\ conn.websocket = "open" /\ ~conn.cancel_req
  /\ conn' = [conn EXCEPT !.logged = @ \cup {k}, !.reader = "done",
                          !.readers = @ - 1,
                          !.close_target = TargetAfterReaderEnd(@),
                          !.message_queue = ListenFinally(@, conn.is_closing)]
  /\ UNCHANGED <<calls, pm, disp>>

\* one frame whose handling raises: the except clauses inside the loop log
\* it and the iteration goes on
ListenBadFrame(k) ==
  /\ conn.reader = "reading" /\ conn.websocket = "open" /\ ~conn.cancel_req
  /\ conn' = [conn EXCEPT !.logged = @ \cup {k}]
  /\ UNCHANGED <<calls, pm, disp>>

\* the transport closes without close() having been called on it
Drop(kind) ==
  /\ conn.websocket = "open"
  /\ conn.drops < MaxDrops
  /\ conn' = [conn EXCEPT !.websocket = kind, !.drops = @ + 1]
  /\ UNCHANGED <<calls, pm, disp>>

\* ReaderOnClosed with the reconnect started as a task of its own while the
\* reader stays in its loop
ReaderOnClosedSpawn ==
  /\ conn.reader = "reading"
  /\ conn.websocket \in {"closedErr", "closedOk"}
  /\ IF conn.websocket = "closedErr" /\ ~conn.is_closing
       THEN conn' = [conn EXCEPT !.websocket = "None",
                                 !.conn_pc = "loop", !.retries = 0,
                                 !.is_reconnect = TRUE]
       ELSE conn' = [conn EXCEPT !.reader = "done", !.cancel_req = FALSE,
                                 !.readers = @ - 1,
                                 !.close_target = TargetAfterReaderEnd(@),
                                 !.message_queue = ListenFinally(@, conn.is_closing)]
  /\ UNCHANGED <<calls, pm, disp>>

\* the iteration over the transport ends: ConnectionClosed is raised
\* (closedErr) or the iteration just stops (closedOk)
ReaderOnClosed ==
  /\ conn.reader = "reading"
  /\ conn.websocket \in {"closedErr", "closedOk"}
  /\ IF conn.websocket = "closedErr" /\ ~conn.is_closing
       THEN conn' = [conn EXCEPT !.websocket = "None", !.reader = "reconnect",
                                 !.readers = @ - 1,
                                 !.conn_pc = "loop", !.retries = 0,
                                 !.is_reconnect = TRUE]
       ELSE conn' = [conn EXCEPT !.reader = "done", !.cancel_req = FALSE,
                                 !.readers = @ - 1,
                                 !.close_target = TargetAfterReaderEnd(@),
                                 !.message_queue = ListenFinally(@, conn.is_closing)]
  /\ UNCHANGED <<calls, pm, disp>>

\* CancelledError is delivered to the reader task at its suspension point
ReaderCancelled ==
  /\ conn.cancel_req
  /\ conn.reader \in {"reading", "reconnect"}
  /\ conn.conn_pc # "selfawait"
  /\ conn' = [conn EXCEPT !.reader = "done", !.cancel_req = FALSE,
                          !.readers = IF conn.reader = "reading" THEN @ - 1 ELSE @,
                          !.conn_pc = IF conn.reader = "reconnect" THEN "idle" ELSE @,
                          !.wait_time = IF conn.reader = "reconnect" THEN 0 ELSE @,
                          !.retries = 0, !.attempts = 0,
                          !.close_target = TargetAfterReaderEnd(@),
                          !.message_queue = ListenFinally(@, conn.is_closing)]
  /\ UNCHANGED <<calls, pm, disp>>

(***************************************************************************)
(* listen()                                                                *)
(***************************************************************************)
\* Consume taking the youngest element of the queue
ConsumeNewest ==
  /\ conn.consumer = "listening" /\ conn.dispatching = 0
  /\ conn.connect_result = "True"
  /\ conn.message_queue # <<>>
  /\ LET q == conn.message_queue
         last == q[Len(q)] IN
     conn' = [conn EXCEPT !.message_queue = SubSeq(q, 1, Len(q) - 1),
                          !.consumer = IF last = Sentinel THEN "stopped" ELSE @,
                          !.dispatching = last.n]
  /\ UNCHANGED <<calls, pm, disp>>

\* one turn of the loop of _listen_events: listen() takes the oldest element
\* of the queue, ends on the sentinel and hands a frame to _handle_event
Consume ==
  /\ conn.consumer = "listening" /\ conn.dispatching = 0
  /\ conn.connect_result = "True"   \* LunarBot.run goes on only after connect()
  /\ conn.message_queue # <<>>
  /\ conn' = [conn EXCEPT !.message_queue = AfterGet(@),
                          !.consumer = IF Head(conn.message_queue) = Sentinel
                                         THEN "stopped" ELSE @,
                          !.dispatching = Head(conn.message_queue).n]
  /\ UNCHANGED <<calls, pm, disp>>

\* await self._handle_event(event_data) returns
HandleEventDone ==
  /\ conn.dispatching # 0
  /\ conn' = [conn EXCEPT !.dispatching = 0, !.handed = "none"]
  /\ UNCHANGED <<calls, pm, disp>>

\* await self._handle_event(event_data) raises: EventFactory.create_event and
\* the native commands run outside any try block, so the exception reaches
\* the except clause of _listen_events, which is outside its loop
HandleEventRaise ==
  /\ conn.dispatching # 0
  /\ conn.consumer = "listening"
  /\ conn' = [conn EXCEPT !.dispatching = 0, !.consumer = "stopped",
                          !.handed = "none"]
  /\ UNCHANGED <<calls, pm, disp>>

(***************************************************************************)
(* send(data, wait_for_response=True)                                      *)
(***************************************************************************)
\* str(uuid.uuid4()): an id no earlier call of the session was given
uuid4(c) == c.next_id

\* an except clause of send: fail and drop the request if it is unresolved
SendExcept(c, r) ==
  IF r \in c.pending_requests /\ ~FutDone(c.fut[r])
    THEN [c EXCEPT !.pending_requests = @ \ {r},
                   !.fut[r] = [st |-> "exception", val |-> NoFrame]]
    ELSE c

\* SendFinally with the test on the future inverted
SendFinallyInverted(c, r) ==
  IF r \in c.pending_requests /\ ~FutDone(c.fut[r])
    THEN [c EXCEPT !.pending_requests = @ \ {r}]
    ELSE c

\* the finally clause of send: drop the request if its future is done
SendFinally(c, r) ==
  IF r \in c.pending_requests /\ FutDone(c.fut[r])
    THEN [c EXCEPT !.pending_requests = @ \ {r}]
    ELSE c

Ended(call, how, frame) ==
  [call EXCEPT !.pc = "done", !.outcome = how, !.resp = frame, !.timer = 0]

\* the call starts: not connected raises ConnectionError, otherwise the
\* request id and its future are registered
SendCall(c) ==
  /\ UNCHANGED <<pm, disp>>
  /\ calls[c].pc = "idle"
  /\ conn.connect_result = "True"   \* LunarBot.run goes on only after connect()
  /\ IF conn.websocket = "None"
       THEN /\ calls' = [calls EXCEPT ![c] = Ended(@, "NotConnected", NoFrame)]
            /\ UNCHANGED conn
       ELSE /\ calls' = [calls EXCEPT ![c].pc = "sending", ![c].rid = uuid4(conn)]
            /\ conn' = [conn EXCEPT
                 !.next_id = @ + 1,
                 !.pending_requests = @ \cup {uuid4(conn)},
                 !.fut[uuid4(conn)] = [st |-> "pending", val |-> NoFrame]]

\* json.dumps in a thread is over and websocket.send runs
SendTransmit(c) ==
  /\ UNCHANGED <<pm, disp>>
  /\ calls[c].pc = "sending"
  /\ LET r == calls[c].rid IN
     CASE conn.websocket = "open" ->
            /\ conn' = [conn EXCEPT !.sent = @ \cup {r}]
            /\ calls' = [calls EXCEPT ![c].pc = "waiting", ![c].timer = 0]
       [] conn.websocket = "None" ->
            \* AttributeError: 'NoneType' object has no attribute 'send'
            /\ conn' = SendFinally(SendExcept(conn, r), r)
            /\ calls' = [calls EXCEPT ![c] = Ended(@, "OtherError", NoFrame)]
       [] OTHER ->
            \* websockets.exceptions.ConnectionClosed
            /\ conn' = SendFinally(SendExcept(conn, r), r)
            /\ calls' = [calls EXCEPT ![c] = Ended(@, "ConnectionClosed", NoFrame)]

\* how the awaiting call ends once its future is done
WaitOutcome(f, timedOut) ==
  CASE f.st = "result" -> "response"
    [] f.st = "exception" -> "ServerError"
    [] f.st = "cancelled" /\ timedOut -> "Timeout"
    [] OTHER -> "Cancelled"

\* asyncio.wait_for returns or raises; the except and finally clauses run
SendObserve(c) ==
  /\ UNCHANGED <<pm, disp>>
  /\ calls[c].pc = "waiting"
  /\ FutDone(conn.fut[calls[c].rid])
  /\ LET r == calls[c].rid
         f == conn.fut[r] IN
       /\ calls' = [calls EXCEPT ![c] =
                      Ended(@, WaitOutcome(f, calls[c].timed_out), f.val)]
       /\ conn' = SendFinally(SendExcept(conn, r), r)

\* the task that runs the call is cancelled while it is suspended in send:
\* in to_thread or websocket.send (the request may have gone out or not), or
\* in wait_for, which cancels the future.  CancelledError is no Exception:
\* only the finally clause runs
SendCancelled(c) ==
  /\ UNCHANGED <<pm, disp>>
  /\ calls[c].pc \in {"sending", "waiting"}
  /\ LET r == calls[c].rid IN
     \E out \in BOOLEAN :
       /\ out => calls[c].pc = "sending" /\ conn.websocket = "open"
       /\ conn' = SendFinally(
                    [conn EXCEPT
                       !.sent = IF out THEN @ \cup {r} ELSE @,
                       !.fut[r].st = IF calls[c].pc = "waiting" /\ ~FutDone(conn.fut[r])
                                       THEN "cancelled" ELSE @], r)
  /\ calls' = [calls EXCEPT ![c] = Ended(@, "Cancelled", NoFrame)]

\* the timeout of asyncio.wait_for expires: it cancels the future
TimeoutFire(c) ==
  /\ UNCHANGED <<pm, disp>>
  /\ calls[c].pc = "waiting"
  /\ calls[c].timer = TimeoutTicks
  /\ ~FutDone(conn.fut[calls[c].rid])
  /\ calls' = [calls EXCEPT ![c].timed_out = TRUE]
  /\ conn' = [conn EXCEPT !.fut[calls[c].rid].st = "cancelled"]

Awaiting(c) == calls[c].pc = "waiting" /\ ~FutDone(conn.fut[calls[c].rid])

\* time passes for every call suspended in wait_for
Tick ==
  /\ \E c \in Callers : Awaiting(c)
  /\ \A c \in Callers : Awaiting(c) => calls[c].timer < TimeoutTicks
  /\ calls' = [c \in Callers |->
                 IF Awaiting(c) THEN [calls[c] EXCEPT !.timer = @ + 1]
                                ELSE calls[c]]
  /\ UNCHANGED <<conn, pm, disp>>

(***************************************************************************)
(* close()                                                                 *)
(***************************************************************************)
\* _is_closing is set and the reader task is cancelled; close() is reached
\* from _cleanup_resources, which only a started runtime runs
CloseStart(c) ==
  IF c.listener_task = "task"
    THEN [c EXCEPT
            !.is_closing = TRUE,
            !.cancel_req = (c.reader # "done"),
            !.close_target = IF c.reader = "done" THEN "finished" ELSE "live",
            !.close_pc = "await_listener"]
    ELSE [c EXCEPT !.is_closing = TRUE, !.close_pc = "ws"]

CloseCall ==
  /\ conn.close_pc = "idle"
  /\ conn.connect_result # "none"
  /\ conn' = CloseStart(conn)
  /\ UNCHANGED <<calls, pm, disp>>

\* await self._listener_task is over
CloseListenerDone ==
  /\ conn.close_pc = "await_listener"
  /\ conn.close_target = "finished"
  /\ conn' = [conn EXCEPT !.listener_task = "None", !.close_pc = "ws"]
  /\ UNCHANGED <<calls, pm, disp>>

\* CloseTail without the drain of the queue
CloseTailNoDrain(c) ==
  [c EXCEPT !.fut = [i \in Ids |->
                       IF i \in c.pending_requests /\ ~FutDone(c.fut[i])
                         THEN [c.fut[i] EXCEPT !.st = "cancelled"]
                         ELSE c.fut[i]],
            !.pending_requests = {},
            !.message_queue = Append(@, Sentinel),
            !.close_pc = "done"]

\* the tail of close(): the futures are cancelled, the table is cleared, the
\* queue is drained and seeded with the sentinel
CloseTail(c) ==
  [c EXCEPT !.fut = [i \in Ids |->
                       IF i \in c.pending_requests /\ ~FutDone(c.fut[i])
                         THEN [c.fut[i] EXCEPT !.st = "cancelled"]
                         ELSE c.fut[i]],
            !.pending_requests = {},
            !.message_queue = <<Sentinel>>,
            !.close_pc = "done"]

\* if self.websocket: await self.websocket.close()
CloseWs ==
  /\ conn.close_pc = "ws"
  /\ IF conn.websocket # "None"
       THEN conn' = [conn EXCEPT
              !.websocket = IF @ = "open" THEN "closedOk" ELSE @,
              !.close_pc = "sleep"]
       ELSE conn' = CloseTail(conn)
  /\ UNCHANGED <<calls, pm, disp>>

\* the sleep is over: websocket = None, then the tail
CloseFinish ==
  /\ conn.close_pc = "sleep"
  /\ conn' = CloseTail([conn EXCEPT !.websocket = "None"])
  /\ UNCHANGED <<calls, pm, disp>>

(***************************************************************************)
(* The plugin directory and PluginManager.__init__                         *)
(*                                                                         *)
(* Strings are sequences of characters.  A plugin unit is one entry of    *)
(* the plugin directory: a file "<name>.py" or a directory "<name>" with a *)
(* setup.py (form "enabled"), renamed with the prefix "d_" when disabled   *)
(* (form "disabled"); its content is what exec_module finds in the file.   *)
(***************************************************************************)
UnitNames == <<"a", "b", "c", "d">>
Units == {UnitNames[i] : i \in 1..NumUnits}

\* the last unit is a directory "<name>" (disabled: "d_<name>") that holds a
\* setup.py, the others are files "<name>.py" (disabled: "d_<name>.py")
DirUnits == {UnitNames[NumUnits]}

trigger_keyword == <<"/">>          \* config.get('trigger_keyword', '/')
AnyKeyword == <<"A", "n", "y">>            \* the wildcard TRIGGHT_KEYWORD
Ping == <<"p", "i", "n", "g">>
None == <<"<None>">>

\* what a plugin file can hold: "ok" is FALSE for a module without
\* TRIGGHT_KEYWORD
Modules ==
  { [ok |-> TRUE, trigger |-> Ping, priority |-> 1,
     on_message |-> TRUE, on_lunar_event |-> FALSE, help |-> "ping"],
    [ok |-> TRUE, trigger |-> AnyKeyword, priority |-> 2,
     on_message |-> TRUE, on_lunar_event |-> TRUE, help |-> "any"],
    [ok |-> TRUE, trigger |-> AnyKeyword, priority |-> 1,
     on_message |-> TRUE, on_lunar_event |-> FALSE, help |-> "first"],
    [ok |-> TRUE, trigger |-> Ping, priority |-> 2,
     on_message |-> FALSE, on_lunar_event |-> TRUE, help |-> "start"],
    [ok |-> FALSE, trigger |-> None, priority |-> 1,
     on_message |-> TRUE, on_lunar_event |-> FALSE, help |-> ""] }

\* the files of the directory when the runtime starts: copies of one
\* wildcard plugin
InitModule(u) ==
  [ok |-> TRUE, trigger |-> AnyKeyword, priority |-> 2,
   on_message |-> TRUE, on_lunar_event |-> TRUE, help |-> "any"]

\* the orders os.listdir can return the directory in
Listings ==
  {s \in [1..NumUnits -> Units] : \A i, j \in 1..NumUnits : s[i] = s[j] => i = j}

NoStamp == [form |-> "absent", mtime |-> 0]
NoReport == [called |-> FALSE]

\* initialize_file_timestamps: path -> st_mtime of every *.py file of the
\* plugin directory whose name does not start with "_"; the path is the form
\* and the name.  A directory is not a file, and its setup.py is not listed.
initialize_file_timestamps(p) ==
  [p EXCEPT !.file_timestamps =
     [u \in Units |-> IF p.disk[u].form = "absent" \/ u \in DirUnits
                      THEN NoStamp
                      ELSE [form |-> p.disk[u].form, mtime |-> p.disk[u].mtime]]]

\* the users of admin114.json: the root user, one super user, one manager;
\* user 4 is in none of the lists
Users == 1..4
InitConfig == [root_user |-> 1, super_users |-> {2}, manager_users |-> {3}]
NoCommand == [cmd |-> "none", user |-> 0]

\* listing is the order os.listdir returns the directory in; no decision
\* depends on it before load_plugins reads the directory in bot.run
InitPlug ==
  pm = initialize_file_timestamps(
         [disk |-> [u \in Units |->
                      [form |-> "enabled", mod |-> InitModule(u), mtime |-> 0]],
          listing |-> [i \in 1..NumUnits |-> UnitNames[i]],
          plugins |-> <<>>, enabled_plugins |-> <<>>, failed_plugins |-> {},
          file_timestamps |-> [u \in Units |-> NoStamp],
          monitoring_enabled |-> FALSE,
          running |-> FALSE, posted |-> 0, edits |-> 0,
          report |-> NoReport, cleanup |-> "none",
          thread |-> "none", stop |-> "none",
          config |-> InitConfig, issued |-> NoCommand])

NoEvent == [kind |-> "none", text |-> <<>>, is_command |-> FALSE,
            command |-> None, args |-> None, processed_text |-> None]
NoIter == [dict |-> <<>>, attached |-> FALSE, pos |-> 0, used |-> 0]

InitDisp ==
  disp = [pc |-> "idle", ev |-> NoEvent, it |-> NoIter, start |-> <<>>,
          walked |-> <<>>, invoked |-> <<>>, entries |-> <<>>,
          outcomes |-> <<>>, result |-> "none"]

Init == InitConn /\ InitCalls /\ InitPlug /\ InitDisp

(***************************************************************************)
(* load_plugins, _sort_plugins_by_priority, reload_plugins                 *)
(***************************************************************************)
\* plugin_candidates_to_load without the test of the "d_" prefix
plugin_candidates_with_disabled(p) ==
  LET OnDisk(u) == p.disk[u].form # "absent" IN SelectSeq(p.listing, OnDisk)

\* the candidates in os.listdir order: "d_" files are skipped
plugin_candidates_to_load(p) ==
  LET Enabled(u) == p.disk[u].form = "enabled" IN SelectSeq(p.listing, Enabled)

plugin_info(u, m) ==
  [name |-> u, trigger |-> m.trigger, priority |-> m.priority,
   on_message |-> m.on_message, on_lunar_event |-> m.on_lunar_event,
   help |-> m.help]

\* Loaded with the load loop left at the first unit that fails
LoadedUntilFailure(p) ==
  LET cand == plugin_candidates_to_load(p)
      bad == {i \in 1..Len(cand) : ~p.disk[cand[i]].mod.ok}
      stop == IF bad = {} THEN Len(cand) + 1
              ELSE CHOOSE i \in bad : \A j \in bad : i <= j
      good == SubSeq(cand, 1, stop - 1)
  IN [i \in 1..Len(good) |-> plugin_info(good[i], p.disk[good[i]].mod)]

\* the entries load_plugins inserts into self.plugins, in insertion order
Loaded(p) ==
  LET cand == plugin_candidates_to_load(p)
      Ok(u) == p.disk[u].mod.ok
      good == SelectSeq(cand, Ok)
  IN [i \in 1..Len(good) |-> plugin_info(good[i], p.disk[good[i]].mod)]

\* sorted(self.plugins.items(), key=priority): ascending and stable
sorted(s) ==
  LET rank(i) == Cardinality({j \in 1..Len(s) :
                    \/ s[j].priority < s[i].priority
                    \/ s[j].priority = s[i].priority /\ j < i}) + 1
  IN [k \in 1..Len(s) |-> s[CHOOSE i \in 1..Len(s) : rank(i) = k]]

load_plugins(p) ==
  LET cand == plugin_candidates_to_load(p)
      loaded == Loaded(p)
  IN [p EXCEPT
        !.plugins = sorted(loaded),
        !.enabled_plugins = [i \in 1..Len(loaded) |-> loaded[i].name],
        !.failed_plugins = {cand[i] : i \in {j \in 1..Len(cand) :
                                               ~p.disk[cand[j]].mod.ok}}]

reload_plugins(p) == initialize_file_timestamps(load_plugins(p))

\* a reload while handle_event is suspended in a handler: clear() and the
\* insertions of load_plugins act on the dict object the for loop iterates,
\* then _sort_plugins_by_priority binds self.plugins to a new dict
IterAfterReload(d, p) ==
  IF d.pc = "handler" /\ d.it.attached
    THEN [d EXCEPT !.it.dict = Loaded(p), !.it.attached = FALSE]
    ELSE d

(***************************************************************************)
(* LunarBot._handle_message_event: the command fields of a message         *)
(***************************************************************************)
StartsWith(s, t) == Len(s) >= Len(t) /\ SubSeq(s, 1, Len(t)) = t

\* str.strip()
strip(s) ==
  LET ns == {i \in 1..Len(s) : s[i] # " "} IN
  IF ns = {} THEN <<>>
  ELSE SubSeq(s, CHOOSE i \in ns : \A j \in ns : i <= j,
                 CHOOSE i \in ns : \A j \in ns : i >= j)

\* str.split(" ", 1)
split1(s) ==
  LET sp == {i \in 1..Len(s) : s[i] = " "} IN
  IF sp = {} THEN <<s>>
  ELSE LET k == CHOOSE i \in sp : \A j \in sp : i <= j
       IN <<SubSeq(s, 1, k - 1), SubSeq(s, k + 1, Len(s))>>

_handle_message_event(text) ==
  IF text # <<>> /\ StartsWith(text, trigger_keyword)
    THEN LET command_full == strip(SubSeq(text, Len(trigger_keyword) + 1, Len(text)))
             parts == split1(command_full)
             args == IF Len(parts) > 1 THEN parts[2] ELSE <<>>
         IN [kind |-> "message", text |-> text, is_command |-> TRUE,
             command |-> parts[1], args |-> args, processed_text |-> args]
    ELSE [kind |-> "message", text |-> text, is_command |-> FALSE,
          command |-> None, args |-> None, processed_text |-> text]

\* message texts the transport delivers; none of them names a native command
Texts ==
  { <<"/", "p", "i", "n", "g">>,
    <<"h", "e", "l", "l", "o">>,
    <<"/", " ", "p", "i", "n", "g">>,
    <<"/", "p", "i", "n", "g", "s">> }

NoticeEvent == [NoEvent EXCEPT !.kind = "notice"]
LunarStartListen == [NoEvent EXCEPT !.kind = "lunar"]
LunarStopListen == [NoEvent EXCEPT !.kind = "lunar_stop"]

\* isinstance(event, (Events.LunarStartListen, Events.LunarStopListen))
IsLifecycle(ev) == ev.kind \in {"lunar", "lunar_stop"}

\* the events _handle_event hands to _handle_plugin_event
Events == {_handle_message_event(t) : t \in Texts} \cup {NoticeEvent}

(***************************************************************************)
(* handle_event                                                            *)
(***************************************************************************)
\* ShouldTrigger without the command branch
ShouldTriggerNoCommand(ev, plugin) ==
  IF ev.kind = "message"
    THEN IF plugin.trigger = AnyKeyword THEN TRUE
         ELSE ev.text # <<>>
                /\ StartsWith(ev.text, trigger_keyword \o plugin.trigger)
    ELSE plugin.trigger = AnyKeyword

\* should_trigger for an event that is not a lifecycle event
ShouldTrigger(ev, plugin) ==
  IF ev.kind = "message"
    THEN IF plugin.trigger = AnyKeyword THEN TRUE
         ELSE IF ev.is_command /\ plugin.trigger = ev.command THEN TRUE
         ELSE ev.text # <<>>
                /\ StartsWith(ev.text, trigger_keyword \o plugin.trigger)
    ELSE plugin.trigger = AnyKeyword

\* the prefix branch rewrites event.processed_text
ProcessedText(ev, plugin) ==
  IF /\ ev.kind = "message"
     /\ plugin.trigger # AnyKeyword
     /\ ~(ev.is_command /\ plugin.trigger = ev.command)
     /\ ev.text # <<>>
     /\ StartsWith(ev.text, trigger_keyword \o plugin.trigger)
    THEN strip(SubSeq(ev.text, Len(trigger_keyword \o plugin.trigger) + 1,
                      Len(ev.text)))
    ELSE ev.processed_text

\* Invokes calling on_message for a lifecycle event when the plugin has no
\* on_lunar_event
InvokesFallsThrough(ev, plugin) ==
  IF IsLifecycle(ev) /\ plugin.on_lunar_event THEN TRUE
  ELSE plugin.trigger = AnyKeyword /\ plugin.on_message

\* the entry point called for the plugin, if any
Invokes(ev, plugin) ==
  IF IsLifecycle(ev) THEN plugin.on_lunar_event
  ELSE ShouldTrigger(ev, plugin) /\ plugin.on_message

\* which entry point of the module an invocation calls
EntryPoint(ev) ==
  IF IsLifecycle(ev) THEN "on_lunar_event" ELSE "on_message"

\* handle_event up to its for statement
StartWalk(ev, p) ==
  [pc |-> "next", ev |-> ev,
   it |-> [dict |-> p.plugins, attached |-> TRUE, pos |-> 0,
           used |-> Len(p.plugins)],
   start |-> p.plugins, walked |-> <<>>, invoked |-> <<>>, entries |-> <<>>,
   outcomes |-> <<>>, result |-> "none"]

\* handle_event has returned or raised
EndWalk(d, how) == [d EXCEPT !.pc = "done", !.result = how, !.it = NoIter]

\* bot.run: load_plugins, start_file_monitoring, dispatch of LunarStartListen
Run ==
  /\ ~pm.running
  /\ \E auto \in BOOLEAN, l \in Listings :
       /\ pm' = [load_plugins([pm EXCEPT !.listing = l])
                   EXCEPT !.running = TRUE, !.monitoring_enabled = auto,
                          !.thread = IF auto THEN "test" ELSE "none"]
       /\ disp' = StartWalk(LunarStartListen, pm')
  /\ UNCHANGED <<conn, calls>>

\* _listen_events takes the next event once the previous one is handled
DispatchStart(ev) ==
  /\ pm.running
  /\ disp.pc = "idle"
  /\ disp' = StartWalk(ev, pm)
  /\ UNCHANGED <<conn, calls, pm>>

\* the for statement asks the dict iterator for the next entry, and the loop
\* body runs up to the await of the entry point
DispatchNext ==
  /\ disp.pc = "next"
  /\ LET it == disp.it IN
     IF it.used # Len(it.dict)
       THEN \* RuntimeError: dictionary changed size during iteration
            disp' = EndWalk(disp, "RuntimeError")
       ELSE IF it.pos >= Len(it.dict)
         THEN disp' = EndWalk(disp, "False")
         ELSE LET plugin == it.dict[it.pos + 1]
                  d == [disp EXCEPT !.it.pos = @ + 1,
                                    !.walked = Append(@, plugin),
                                    !.ev.processed_text =
                                       ProcessedText(disp.ev, plugin)]
              IN IF Invokes(disp.ev, plugin)
                   THEN disp' = [d EXCEPT !.pc = "handler",
                                          !.invoked = Append(@, plugin),
                                          !.entries = Append(@, EntryPoint(disp.ev))]
                   ELSE disp' = d
  /\ UNCHANGED <<conn, calls, pm>>

\* the entry point returns a truthy value, a falsy value, or raises
HandlerReturn(r) ==
  /\ disp.pc = "handler"
  /\ LET d == [disp EXCEPT !.outcomes = Append(@, r)] IN
     IF r = "handled" THEN disp' = EndWalk(d, "True")
                      ELSE disp' = [d EXCEPT !.pc = "next"]
  /\ UNCHANGED <<conn, calls, pm>>

\* _handle_plugin_event logs what handle_event returned or raised, and
\* _handle_event returns to _listen_events
HandlePluginEventReturn ==
  /\ disp.pc = "done"
  /\ disp' = [pc |-> "idle", ev |-> NoEvent, it |-> NoIter, start |-> <<>>,
              walked |-> <<>>, invoked |-> <<>>, entries |-> <<>>,
              outcomes |-> <<>>, result |-> "none"]
  /\ UNCHANGED <<conn, calls, pm>>

(***************************************************************************)
(* The plugin directory changes; monitor_plugin_files.  The main loop runs *)
(* handle_event from one await to the next without interruption, so the    *)
(* steps of the editor and of the watcher thread are placed where the      *)
(* loop is suspended.                                                      *)
(***************************************************************************)
Suspended == pm.running /\ disp.pc \in {"handler", "idle"}

\* somebody saves a plugin file: its st_mtime moves on
EditFile(u, m) ==
  /\ Suspended
  /\ pm.edits < MaxEdits
  /\ pm.disk[u].form # "absent"
  /\ pm' = [pm EXCEPT !.disk[u].mod = m, !.disk[u].mtime = @ + 1,
                      !.edits = @ + 1]
  /\ UNCHANGED <<conn, calls, disp>>

\* one pass of the watcher thread that finds a changed timestamp: it posts
\* reload_plugins() to the main loop and re-reads the timestamps
MonitorChange ==
  /\ Suspended
  /\ pm.monitoring_enabled
  /\ \E u \in Units \ DirUnits :
       /\ pm.disk[u].form # "absent"
       /\ pm.file_timestamps[u].form = pm.disk[u].form
       /\ pm.file_timestamps[u].mtime # pm.disk[u].mtime
  /\ pm' = [initialize_file_timestamps(pm) EXCEPT !.posted = @ + 1]
  /\ UNCHANGED <<conn, calls, disp>>

\* the main loop runs a posted reload_plugins(): between two events, or
\* while handle_event is suspended in the await of an entry point
PostedReload ==
  /\ pm.posted > 0
  /\ Suspended
  /\ pm' = [reload_plugins(pm) EXCEPT !.posted = @ - 1]
  /\ disp' = IterAfterReload(disp, pm)
  /\ UNCHANGED <<conn, calls>>

(***************************************************************************)
(* The watcher thread step by step, and stop_file_monitoring.  pm.thread   *)
(* is the position of monitor_plugin_files: "none" (never started) |       *)
(* "test" | "sleep" | "scan" | "exited"; pm.stop is the position of        *)
(* stop_file_monitoring: "none" | "join" | "returned".  The thread is an   *)
(* OS thread: its steps wait for nothing in the main loop, and join()      *)
(* blocks the main loop.                                                   *)
(***************************************************************************)
is_alive(p) == p.thread \in {"test", "sleep", "scan"}

\* the flag of stop_file_monitoring; its join is StopJoined, StopTimeout
stop_file_monitoring(p) == [p EXCEPT !.monitoring_enabled = FALSE]

\* a plugin file whose st_mtime differs from the recorded one
ChangedUnits(p) ==
  {u \in Units \ DirUnits :
     /\ p.disk[u].form # "absent"
     /\ p.file_timestamps[u].form = p.disk[u].form
     /\ p.file_timestamps[u].mtime # p.disk[u].mtime}

\* while self.monitoring_enabled
MonitorTest ==
  /\ pm.thread = "test"
  /\ pm' = [pm EXCEPT !.thread = IF pm.monitoring_enabled THEN "sleep"
                                  ELSE "exited"]
  /\ UNCHANGED <<conn, calls, disp>>

\* time.sleep(1) is over
MonitorSleep ==
  /\ pm.thread = "sleep"
  /\ pm' = [pm EXCEPT !.thread = "scan"]
  /\ UNCHANGED <<conn, calls, disp>>

\* the pass over os.listdir: at the first changed file reload_plugins() is
\* posted to the running main loop and the timestamps are re-read
MonitorScan ==
  /\ pm.thread = "scan"
  /\ pm' = IF ChangedUnits(pm) # {}
             THEN [initialize_file_timestamps(pm)
                     EXCEPT !.posted = IF pm.running THEN @ + 1 ELSE @,
                            !.thread = "test"]
             ELSE [pm EXCEPT !.thread = "test"]
  /\ UNCHANGED <<conn, calls, disp>>

\* stop_file_monitoring is called: the flag is cleared; a live thread is
\* joined with a timeout of one second
StopCall ==
  /\ pm.running /\ pm.stop = "none"
  /\ pm' = [stop_file_monitoring(pm)
              EXCEPT !.stop = IF is_alive(pm) THEN "join" ELSE "returned"]
  /\ UNCHANGED <<conn, calls, disp>>

\* join returns because the thread has ended
StopJoined ==
  /\ pm.stop = "join" /\ ~is_alive(pm)
  /\ pm' = [pm EXCEPT !.stop = "returned"]
  /\ UNCHANGED <<conn, calls, disp>>

\* join returns because the second is over
StopTimeout ==
  /\ pm.stop = "join" /\ is_alive(pm)
  /\ pm' = [pm EXCEPT !.stop = "returned"]
  /\ UNCHANGED <<conn, calls, disp>>

(***************************************************************************)
(* The native commands reload, enable and disable.  They run in place of   *)
(* the dispatch of the message that carries them.                          *)
(***************************************************************************)
\* _reload_plugins
ReloadCommand ==
  /\ pm.running
  /\ disp.pc = "idle"
  /\ pm' = reload_plugins(pm)
  /\ pm' # pm
  /\ UNCHANGED <<conn, calls, disp>>

\* os.rename of the unit's file; the directory lists in some order afterwards
rename(p, u, form, l) == [p EXCEPT !.disk[u].form = form, !.listing = l]

\* enable_plugin(plugin_name)
enable_plugin(p, u, l) ==
  IF p.disk[u].form = "enabled"
    THEN IF \E i \in 1..Len(p.plugins) : p.plugins[i].name = u
           THEN p
           ELSE reload_plugins(p)
    ELSE IF p.disk[u].form = "disabled"
           THEN reload_plugins(rename(p, u, "enabled", l))
           ELSE p

\* disable_plugin without the reload after the rename
disable_plugin_rename_only(p, u, l) ==
  IF p.disk[u].form = "disabled"
    THEN reload_plugins(p)
    ELSE IF p.disk[u].form = "enabled"
           THEN rename(p, u, "disabled", l)
           ELSE p

\* disable_plugin(plugin_name)
disable_plugin(p, u, l) ==
  IF p.disk[u].form = "disabled"
    THEN reload_plugins(p)
    ELSE IF p.disk[u].form = "enabled"
           THEN reload_plugins(rename(p, u, "disabled", l))
           ELSE p

\* what enable_plugin returns: the membership test after the reload when
\* the enabled form is on disk, True after a rename, False when not found
enable_plugin_returns(p, u, l) ==
  IF p.disk[u].form = "enabled"
    THEN \E i \in 1..Len(enable_plugin(p, u, l).plugins) :
           enable_plugin(p, u, l).plugins[i].name = u
    ELSE p.disk[u].form = "disabled"

\* what disable_plugin returns: True when the disabled form is on disk and
\* after a rename, False when not found
disable_plugin_returns(p, u, l) == p.disk[u].form \in {"disabled", "enabled"}

EnableCommand(u) ==
  /\ pm.running
  /\ disp.pc = "idle"
  /\ \E l \in Listings : pm' = enable_plugin(pm, u, l)
  /\ pm' # pm
  /\ UNCHANGED <<conn, calls, disp>>

DisableCommand(u) ==
  /\ pm.running
  /\ disp.pc = "idle"
  /\ \E l \in Listings : pm' = disable_plugin(pm, u, l)
  /\ pm' # pm
  /\ UNCHANGED <<conn, calls, disp>>

(***************************************************************************)
(* The native commands as a user issues them: _check_permission first.     *)
(* pm.config holds root_user, super_users and manager_users (lists read    *)
(* as sets: only membership is tested), pm.issued the last command and     *)
(* the user who sent it.                                                   *)
(***************************************************************************)
\* _check_permission without the test of required_level
_check_permission_no_level(cfg, user_id, required_level) ==
  \/ user_id = cfg.root_user
  \/ user_id \in cfg.manager_users \/ user_id \in cfg.super_users

_check_permission(cfg, user_id, required_level) ==
  IF user_id = cfg.root_user THEN TRUE
  ELSE IF required_level = "super" THEN user_id \in cfg.super_users
  ELSE user_id \in cfg.manager_users \/ user_id \in cfg.super_users

PluginCommands == {"_enable_plugin", "_disable_plugin", "_reload_plugins",
                   "_restart_bot"}
ManagerCommands == {"_add_manager", "_remove_manager"}

\* what the command does once the permission is granted; arg is the plugin
\* name or the user id the message carries
Granted(p, cmd, arg, l) ==
  CASE cmd = "_enable_plugin" ->
         enable_plugin(p, arg, l)
    [] cmd = "_disable_plugin" ->
         disable_plugin(p, arg, l)
    [] cmd = "_reload_plugins" -> reload_plugins(p)
    [] cmd = "_restart_bot" -> [p EXCEPT !.cleanup = "cancel"]
    [] cmd = "_add_manager" ->
         [p EXCEPT !.config.manager_users = @ \cup {arg}]
    [] cmd = "_remove_manager" ->
         [p EXCEPT !.config.manager_users = @ \ {arg}]

\* a message of user_id that names a native command reaches its handler
NativeCommand(user_id, cmd, arg) ==
  /\ pm.running /\ pm.cleanup = "none"
  /\ disp.pc = "idle"
  /\ LET level == IF cmd \in ManagerCommands THEN "super" ELSE "manager" IN
     IF _check_permission(pm.config, user_id, level)
       THEN \E l \in Listings :
              pm' = [Granted(pm, cmd, arg, l)
                       EXCEPT !.issued = [cmd |-> cmd, user |-> user_id]]
       ELSE pm' = [pm EXCEPT !.issued = [cmd |-> cmd, user |-> user_id]]
  /\ UNCHANGED <<conn, calls, disp>>

(***************************************************************************)
(* SpecPerm: every user issues every guarded native command, on the first  *)
(* plugin unit, whose file an edit breaks in between.                      *)
(***************************************************************************)
NextPerm ==
  \/ Run
  \/ DispatchNext
  \/ \E r \in {"handled", "nothandled", "raise"} : HandlerReturn(r)
  \/ HandlePluginEventReturn
  \/ \E m \in {n \in Modules : ~n.ok} : EditFile(UnitNames[1], m)
  \/ \E user_id \in Users, cmd \in {"_enable_plugin", "_disable_plugin"} :
       NativeCommand(user_id, cmd, UnitNames[1])
  \/ \E user_id \in Users, cmd \in {"_reload_plugins", "_restart_bot"} :
       NativeCommand(user_id, cmd, <<>>)
  \/ \E user_id \in Users, cmd \in ManagerCommands, arg \in {3, 4} :
       NativeCommand(user_id, cmd, arg)

SpecPerm == Init /\ [][NextPerm]_vars

(***************************************************************************)
(* Shutdown: restart() and the restart command (_restart_bot,              *)
(* _perform_restart) both end in _cleanup_resources.  pm.cleanup is the    *)
(* position of _cleanup_resources: "none" | "cancel" | "close" | "closing" *)
(* | "done".                                                               *)
(***************************************************************************)
\* restart(): the watcher is stopped, then _cleanup_resources starts
restart ==
  /\ pm.running /\ pm.cleanup = "none"
  /\ conn.connect_result = "True"
  /\ pm' = [stop_file_monitoring(pm) EXCEPT !.cleanup = "cancel"]
  /\ UNCHANGED <<conn, calls, disp>>

\* _perform_restart(): _cleanup_resources starts at once
_perform_restart ==
  /\ pm.running /\ pm.cleanup = "none"
  /\ conn.connect_result = "True"
  /\ pm' = [pm EXCEPT !.cleanup = "cancel"]
  /\ UNCHANGED <<conn, calls, disp>>

\* every task but the current one is cancelled, the reader task among them,
\* and gathered under wait_for with a timeout of 5 seconds
CleanupCancel ==
  /\ pm.cleanup = "cancel"
  /\ conn' = [conn EXCEPT
       !.cancel_req = @ \/ conn.reader \in {"reading", "reconnect"}]
  /\ pm' = [pm EXCEPT !.cleanup = "close"]
  /\ UNCHANGED <<calls, disp>>

\* the wait is over, by completion of the tasks or by the timeout:
\* connection.close() is called
CleanupClose ==
  /\ pm.cleanup = "close"
  /\ conn.close_pc = "idle"
  /\ conn' = CloseStart(conn)
  /\ pm' = [pm EXCEPT !.cleanup = "closing"]
  /\ UNCHANGED <<calls, disp>>

\* close() has returned: plugin_manager.stop_file_monitoring()
CleanupStop ==
  /\ pm.cleanup = "closing"
  /\ conn.close_pc = "done"
  /\ pm' = [stop_file_monitoring(pm) EXCEPT !.cleanup = "done"]
  /\ UNCHANGED <<conn, calls, disp>>

(***************************************************************************)
(* SpecConn: the whole life of one session - initial connect, frames,      *)
(* unexpected closures, reconnects, the consumer, close() - with one       *)
(* send call in flight.                                                    *)
(***************************************************************************)
NextConn ==
  \/ ConnectCall
  \/ ConnectLoop
  \/ ConnectAttemptOk
  \/ ConnectSelfAwaitDone
  \/ ConnectAttemptFail
  \/ ConnectSleepDone
  \/ \E f \in Frames : ListenFrame(f)
  \/ \E k \in {"closedErr", "closedOk"} : Drop(k)
  \/ ReaderOnClosed
  \/ ReaderCancelled
  \/ Consume
  \/ HandleEventDone
  \/ \E c \in {1} : SendCall(c)
  \/ \E c \in {1} : SendTransmit(c)
  \/ \E c \in {1} : SendObserve(c)
  \/ \E c \in {1} : TimeoutFire(c)
  \/ Tick
  \/ CloseCall
  \/ CloseListenerDone
  \/ CloseWs
  \/ CloseFinish

SpecConn == Init /\ [][NextConn]_vars

\* websockets.connect and asyncio.sleep return or raise in finite time
FairConn ==
  /\ SpecConn
  /\ WF_vars(ConnectLoop)
  /\ WF_vars(ConnectAttemptOk \/ ConnectAttemptFail)
  /\ WF_vars(ConnectSleepDone)

\* the task that cancelled and awaits itself is resumed by the loop
FairReconnect == FairConn /\ WF_vars(ConnectSelfAwaitDone)

\* a consumer suspended in queue.get() is resumed once the queue holds an
\* element, and the dispatch of a frame returns
FairListen == SpecConn /\ WF_vars(Consume) /\ WF_vars(HandleEventDone)

(***************************************************************************)
(* SpecReader: one send call in flight over a transport that stays up      *)
(* until close(), with every kind of inbound text: answers, events,        *)
(* foreign echoes, and text whose handling raises.  The dispatch of a      *)
(* frame can raise and the task of the send call can be cancelled.         *)
(***************************************************************************)
NextReader ==
  \/ ConnectCall
  \/ ConnectLoop
  \/ ConnectAttemptOk
  \/ ConnectAttemptFail
  \/ ConnectSleepDone
  \/ \E f \in Frames : ListenFrame(f)
  \/ \E k \in BadFrames : ListenBadFrame(k)
  \/ ReaderCancelled
  \/ Consume
  \/ HandleEventDone
  \/ HandleEventRaise
  \/ \E c \in {1} : SendCall(c)
  \/ \E c \in {1} : SendTransmit(c)
  \/ \E c \in {1} : SendObserve(c)
  \/ \E c \in {1} : TimeoutFire(c)
  \/ \E c \in {1} : SendCancelled(c)
  \/ Tick
  \/ CloseCall
  \/ CloseListenerDone
  \/ CloseWs
  \/ CloseFinish

SpecReader == Init /\ [][NextReader]_vars

(***************************************************************************)
(* SpecShutdown: a session that is started, receives frames, loses its     *)
(* transport and reconnects, and is shut down once, by restart() or by the *)
(* restart command.  close() is called by _cleanup_resources only.         *)
(***************************************************************************)
NextShutdown ==
  \/ ConnectCall
  \/ ConnectLoop
  \/ ConnectAttemptOk
  \/ ConnectSelfAwaitDone
  \/ ConnectAttemptFail
  \/ ConnectSleepDone
  \/ \E f \in Frames : f.rid = NoId /\ ListenFrame(f)
  \/ \E k \in {"closedErr", "closedOk"} : Drop(k)
  \/ ReaderOnClosed
  \/ ReaderCancelled
  \/ conn.connect_result = "True" /\ Run
  \/ restart
  \/ _perform_restart
  \/ CleanupCancel
  \/ CleanupClose
  \/ CloseListenerDone
  \/ CloseWs
  \/ CloseFinish
  \/ CleanupStop

SpecShutdown == Init /\ [][NextShutdown]_vars

(***************************************************************************)
(* SpecWatch: the watcher thread step by step beside a main loop that      *)
(* walks LunarStartListen, runs the posted reloads and calls               *)
(* stop_file_monitoring once; the main loop stands still while it is       *)
(* blocked in join().  FairStop adds the progress of the thread.           *)
(***************************************************************************)
LoopFree == pm.stop # "join"

NextWatch ==
  \/ Run
  \/ LoopFree /\ DispatchNext
  \/ LoopFree /\ \E r \in {"handled", "nothandled", "raise"} : HandlerReturn(r)
  \/ LoopFree /\ HandlePluginEventReturn
  \/ LoopFree /\ PostedReload
  \/ \E u \in Units, m \in Modules : EditFile(u, m)
  \/ MonitorTest
  \/ MonitorSleep
  \/ MonitorScan
  \/ StopCall
  \/ StopJoined
  \/ StopTimeout

SpecWatch == Init /\ [][NextWatch]_vars

FairStop ==
  /\ SpecWatch
  /\ WF_vars(MonitorTest) /\ WF_vars(MonitorSleep) /\ WF_vars(MonitorScan)

(***************************************************************************)
(* SpecSend: NumCallers send calls in flight at once over a transport that *)
(* stays up until close(); the answers arrive in any order, late and       *)
(* duplicated answers included.                                            *)
(***************************************************************************)
NextSend ==
  \/ ConnectCall
  \/ ConnectLoop
  \/ ConnectAttemptOk
  \/ ConnectAttemptFail
  \/ ConnectSleepDone
  \/ \E f \in Frames : /\ f.rid \in Ids
                       /\ Len(ListenHandle(conn, f).message_queue) <= MaxLate
                       /\ ListenFrame(f)
  \/ ReaderCancelled
  \/ \E c \in Callers : SendCall(c)
  \/ \E c \in Callers : SendTransmit(c)
  \/ \E c \in Callers : SendObserve(c)
  \/ \E c \in Callers : TimeoutFire(c)
  \/ Tick
  \/ CloseCall
  \/ CloseListenerDone
  \/ CloseWs
  \/ CloseFinish

SpecSend == Init /\ [][NextSend]_vars

(***************************************************************************)
(* get_plugin_list, as a function of what os.listdir returns and of the    *)
(* names in self.plugins and self.failed_plugins.  An entry of the         *)
(* directory is a file "<name>.py" or "d_<name>.py", a directory "<name>"  *)
(* or "d_<name>" with a setup.py ("dir"), or one without ("bare_dir").     *)
(***************************************************************************)
Items == [name : Units, disabled : BOOLEAN, kind : {"file", "dir", "bare_dir"}]

Layouts == {l \in SUBSET Items : Cardinality(l) <= MaxItems}

\* all_plugins_info: enabled_on_disk maps a name to the info written for it
\* ("loaded": a copy of the registry entry, "failed": the entry with 'error',
\* "unloaded": the entry with help '未加载'), disabled_on_disk is keyed by name
get_plugin_list(items, plugins, failed_plugins) ==
  LET named == {i \in items : i.kind # "bare_dir"}
      on == {i.name : i \in {j \in named : ~j.disabled}}
      off == {i.name : i \in {j \in named : j.disabled}}
  IN [enabled_on_disk |->
        [n \in on |-> IF n \in plugins THEN "loaded"
                      ELSE IF n \in failed_plugins THEN "failed"
                      ELSE "unloaded"],
      disabled_on_disk |-> off]

\* one call of get_plugin_list: the directory and the registry it finds, and
\* what it returns
ListPlugins ==
  /\ ~pm.report.called
  /\ \E items \in Layouts, plugins \in SUBSET Units, failed \in SUBSET Units :
       pm' = [pm EXCEPT !.report =
                [called |-> TRUE, items |-> items, plugins |-> plugins,
                 failed_plugins |-> failed,
                 result |-> get_plugin_list(items, plugins, failed)]]
  /\ UNCHANGED <<conn, calls, disp>>

NextList == ListPlugins

SpecList == Init /\ [][NextList]_vars

(***************************************************************************)
(* bot.run after connect(): the consumption loop of _listen_events joined  *)
(* to the dispatcher.  conn.handed tells who was given the frame in hand:  *)
(* "none" | "dispatcher" (_handle_plugin_event) | "native" (a native       *)
(* command).  The loop runs in one task: it takes the next element only    *)
(* when the dispatch before it has returned.                               *)
(***************************************************************************)
LoopReady == pm.running /\ disp.pc = "idle"

\* _handle_event passes the event made of the frame to _handle_plugin_event
HandlePluginEvent(ev) ==
  /\ LoopReady
  /\ conn.dispatching # 0 /\ conn.handed = "none"
  /\ conn' = [conn EXCEPT !.handed = "dispatcher"]
  /\ disp' = StartWalk(ev, pm)
  /\ UNCHANGED <<calls, pm>>

\* ListenEventsEnd without the finally block
ListenEventsEndSilent ==
  /\ LoopReady
  /\ conn.consumer = "listening" /\ conn.dispatching = 0
  /\ conn.message_queue # <<>> /\ Head(conn.message_queue) = Sentinel
  /\ conn' = [conn EXCEPT !.message_queue = AfterGet(@),
                          !.consumer = "stopped"]
  /\ UNCHANGED <<calls, pm, disp>>

\* listen() ends on the sentinel; the finally block of _listen_events
\* dispatches LunarStopListen
ListenEventsEnd ==
  /\ LoopReady
  /\ conn.consumer = "listening" /\ conn.dispatching = 0
  /\ conn.message_queue # <<>> /\ Head(conn.message_queue) = Sentinel
  /\ conn' = [conn EXCEPT !.message_queue = AfterGet(@),
                          !.consumer = "stopped"]
  /\ disp' = StartWalk(LunarStopListen, pm)
  /\ UNCHANGED <<calls, pm>>

\* _handle_event raises outside the dispatcher: the except clause, then the
\* finally block dispatches LunarStopListen
ListenEventsRaise ==
  /\ LoopReady
  /\ conn.consumer = "listening" /\ conn.dispatching # 0
  /\ conn' = [conn EXCEPT !.dispatching = 0, !.consumer = "stopped",
                          !.handed = "none"]
  /\ disp' = StartWalk(LunarStopListen, pm)
  /\ UNCHANGED <<calls, pm>>

(***************************************************************************)
(* SpecLife: bot.run from connect() to the end of the consumption loop -   *)
(* the initial connect succeeds or fails, the plugins are loaded, the      *)
(* frames are consumed and dispatched one at a time, close() ends the      *)
(* loop.                                                                   *)
(***************************************************************************)
NextLife ==
  \/ ConnectCall
  \/ ConnectLoop
  \/ ConnectAttemptOk
  \/ ConnectAttemptFail
  \/ ConnectSleepDone
  \/ \E f \in Frames : f.rid = NoId /\ ListenFrame(f)
  \/ conn.connect_result = "True" /\ Run
  \/ DispatchNext
  \/ \E r \in {"handled", "nothandled", "raise"} : HandlerReturn(r)
  \/ HandlePluginEventReturn
  \/ /\ LoopReady
     /\ conn.message_queue # <<>> /\ Head(conn.message_queue) # Sentinel
     /\ Consume
  \/ \E ev \in Events : HandlePluginEvent(ev)
  \/ LoopReady /\ HandleEventDone
  \/ ListenEventsEnd
  \/ ListenEventsRaise
  \/ CloseCall
  \/ ReaderCancelled
  \/ CloseListenerDone
  \/ CloseWs
  \/ CloseFinish

SpecLife == Init /\ [][NextLife]_vars

(***************************************************************************)
(* SpecHandler: the handler of the frame in hand calls                     *)
(* send(wait_for_response=True); _handle_event returns only when the call  *)
(* has ended.  The transport delivers answers and events, drops and is     *)
(* reconnected.  FairHandler: the main loop resumes what is ready and the  *)
(* timer of wait_for runs.                                                 *)
(***************************************************************************)
\* the handler of the frame in hand calls send
HandlerSend == conn.dispatching # 0 /\ SendCall(1)

\* the handler returns, and with it _handle_event
HandlerDone == calls[1].pc \notin {"sending", "waiting"} /\ HandleEventDone

NextHandler ==
  \/ ConnectCall
  \/ ConnectLoop
  \/ ConnectAttemptOk
  \/ ConnectSelfAwaitDone
  \/ ConnectAttemptFail
  \/ ConnectSleepDone
  \/ \E f \in Frames : ListenFrame(f)
  \/ \E k \in {"closedErr", "closedOk"} : Drop(k)
  \/ ReaderOnClosed
  \/ Consume
  \/ HandlerSend
  \/ SendTransmit(1)
  \/ SendObserve(1)
  \/ TimeoutFire(1)
  \/ Tick
  \/ HandlerDone

SpecHandler == Init /\ [][NextHandler]_vars

FairHandler ==
  /\ SpecHandler
  /\ WF_vars(SendTransmit(1)) /\ WF_vars(SendObserve(1))
  /\ WF_vars(Tick) /\ WF_vars(TimeoutFire(1))
  /\ WF_vars(HandlerDone) /\ WF_vars(Consume)

(***************************************************************************)
(* Messages that name a native command.  The names of the registry are     *)
(* written in ASCII; "help" stands for the command that answers with the   *)
(* help text and changes nothing.                                          *)
(***************************************************************************)
Help == <<"h", "e", "l", "p">>
native_commands ==
  {<<"a", "d", "d">>, <<"d", "e", "l">>, <<"m", "a", "n">>, <<"o", "n">>,
   <<"o", "f", "f">>, <<"r", "e", "s">>, <<"r", "e", "l">>, Help,
   <<"l", "s">>, <<"s", "t", "a", "t">>}

\* texts that name the help command, and a plugin file whose trigger is the
\* name of that command
NativeTexts == {trigger_keyword \o Help,
                trigger_keyword \o <<" ">> \o Help \o <<" ">> \o Ping}
HelpModule == [ok |-> TRUE, trigger |-> Help, priority |-> 1,
               on_message |-> TRUE, on_lunar_event |-> FALSE, help |-> "help"]

\* HandleMessageEvent passing the message on after the native command
HandleMessageEventFallsThrough(text) ==
  /\ LoopReady
  /\ conn.dispatching # 0 /\ conn.handed = "none"
  /\ conn' = [conn EXCEPT !.handed = "dispatcher"]
  /\ disp' = StartWalk(_handle_message_event(text), pm)
  /\ UNCHANGED <<calls, pm>>

\* _handle_event gives a message to _handle_message_event: a command found
\* in native_commands runs and reports handled, any other message goes to
\* _handle_plugin_event
HandleMessageEvent(text) ==
  /\ LoopReady
  /\ conn.dispatching # 0 /\ conn.handed = "none"
  /\ LET ev == _handle_message_event(text) IN
     IF ev.is_command /\ ev.command \in native_commands
       THEN /\ conn' = [conn EXCEPT !.handed = "native"]
            /\ UNCHANGED disp
       ELSE /\ conn' = [conn EXCEPT !.handed = "dispatcher"]
            /\ disp' = StartWalk(ev, pm)
  /\ UNCHANGED <<calls, pm>>

(***************************************************************************)
(* SpecNative: messages that name a native command and messages that do    *)
(* not, consumed one at a time by a runtime whose plugins are wildcards    *)
(* or carry the name of the command as their trigger.                      *)
(***************************************************************************)
NextNative ==
  \/ ConnectCall
  \/ ConnectLoop
  \/ ConnectAttemptOk
  \/ \E f \in Frames : f.rid = NoId /\ ListenFrame(f)
  \/ conn.connect_result = "True" /\ Run
  \/ \E u \in Units : EditFile(u, HelpModule)
  \/ ReloadCommand
  \/ DispatchNext
  \/ \E r \in {"handled", "nothandled", "raise"} : HandlerReturn(r)
  \/ HandlePluginEventReturn
  \/ /\ LoopReady
     /\ conn.message_queue # <<>> /\ Head(conn.message_queue) # Sentinel
     /\ Consume
  \/ \E text \in Texts \cup NativeTexts : HandleMessageEvent(text)
  \/ HandlePluginEvent(NoticeEvent)
  \/ LoopReady /\ conn.handed # "none" /\ HandleEventDone

SpecNative == Init /\ [][NextNative]_vars

(***************************************************************************)
(* EventFactory.create_event.  A frame is the dict of its tags: post_type, *)
(* the four type keys and sub_type; data.get(key) of a key that is absent  *)
(* or null is Absent.  An event is its class, its raw_data and the         *)
(* post_type attribute.                                                    *)
(***************************************************************************)
Absent == "<absent>"
Other == "<other>"

PostTypes == {"message", "notice", "request", "meta_event", Other, Absent}
MessageTypes == {"private", "group", Other, Absent}
NoticeTypes == {"group_upload", "group_admin", "group_increase",
                "group_decrease", "group_ban", "friend_add", "group_recall",
                "friend_recall", "notify", Other, Absent}
RequestTypes == {"friend", "group", Other, Absent}
MetaEventTypes == {"heartbeat", "lifecycle", Other, Absent}
SubTypes == {"poke", "honor", "add", "invite", Other, Absent}

TagFrames == [post_type : PostTypes, message_type : MessageTypes,
              notice_type : NoticeTypes, request_type : RequestTypes,
              meta_event_type : MetaEventTypes, sub_type : SubTypes]

\* Event.__init__: raw_data = data.copy(), post_type = data.get('post_type')
NewEvent(class, data) ==
  [class |-> class, raw_data |-> data, post_type |-> data.post_type]

\* the class chosen for a notice without the test of sub_type
NoticeClassNoSub(data) ==
  LET t == data.notice_type IN
  IF t = "group_upload" THEN "GroupUploadNoticeEvent"
  ELSE IF t = "group_admin" THEN "GroupAdminNoticeEvent"
  ELSE IF t = "group_increase" THEN "GroupIncreaseNoticeEvent"
  ELSE IF t = "group_decrease" THEN "GroupDecreaseNoticeEvent"
  ELSE IF t = "group_ban" THEN "GroupBanNoticeEvent"
  ELSE IF t = "friend_add" THEN "FriendAddNoticeEvent"
  ELSE IF t = "group_recall" THEN "GroupRecallNoticeEvent"
  ELSE IF t = "friend_recall" THEN "FriendRecallNoticeEvent"
  ELSE IF t = "notify" THEN "GroupPokeNoticeEvent"
  ELSE "NoticeEvent"

\* the class chosen for post_type 'notice'
NoticeClass(data) ==
  LET t == data.notice_type IN
  IF t = "group_upload" THEN "GroupUploadNoticeEvent"
  ELSE IF t = "group_admin" THEN "GroupAdminNoticeEvent"
  ELSE IF t = "group_increase" THEN "GroupIncreaseNoticeEvent"
  ELSE IF t = "group_decrease" THEN "GroupDecreaseNoticeEvent"
  ELSE IF t = "group_ban" THEN "GroupBanNoticeEvent"
  ELSE IF t = "friend_add" THEN "FriendAddNoticeEvent"
  ELSE IF t = "group_recall" THEN "GroupRecallNoticeEvent"
  ELSE IF t = "friend_recall" THEN "FriendRecallNoticeEvent"
  ELSE IF t = "notify" /\ data.sub_type = "poke" THEN "GroupPokeNoticeEvent"
  ELSE IF t = "notify" /\ data.sub_type = "honor" THEN "GroupHonorNoticeEvent"
  ELSE "NoticeEvent"

\* the class chosen for post_type 'request'
RequestClass(data) ==
  IF data.request_type = "friend" THEN "FriendRequestEvent"
  ELSE IF data.request_type = "group"
    THEN IF data.sub_type = "add" THEN "GroupAddRequestEvent"
         ELSE IF data.sub_type = "invite" THEN "GroupInviteRequestEvent"
         ELSE "RequestEvent"
  ELSE "RequestEvent"

create_event(data) ==
  IF data.post_type = "message"
    THEN IF data.message_type = "private"
           THEN NewEvent("PrivateMessageEvent", data)
         ELSE IF data.message_type = "group"
           THEN NewEvent("GroupMessageEvent", data)
         ELSE NewEvent("MessageEvent", data)
  ELSE IF data.post_type = "notice"
    THEN NewEvent(NoticeClass(data), data)
  ELSE IF data.post_type = "request"
    THEN NewEvent(RequestClass(data), data)
  ELSE IF data.post_type = "meta_event"
    THEN IF data.meta_event_type = "heartbeat"
           THEN NewEvent("HeartbeatMetaEvent", data)
         ELSE IF data.meta_event_type = "lifecycle"
           THEN NewEvent("LifecycleMetaEvent", data)
         ELSE NewEvent("MetaEvent", data)
  ELSE NewEvent("Event", data)

\* _handle_event turns the frame it is given into an event
CreateEvent(data) ==
  /\ ~conn.created.made
  /\ conn' = [conn EXCEPT !.created =
                [made |-> TRUE, data |-> data, event |-> create_event(data)]]
  /\ UNCHANGED <<calls, pm, disp>>

\* one frame is handled in a run
NextFactory == ~conn.created.made /\ \E data \in TagFrames : CreateEvent(data)

SpecFactory == Init /\ [][NextFactory]_vars

(***************************************************************************)
(* SpecPlug: the plugin directory, the registry, the watcher, the native   *)
(* plugin commands and the dispatch of one event at a time.                *)
(***************************************************************************)
NextPlug ==
  \/ Run
  \/ \E ev \in Events : DispatchStart(ev)
  \/ DispatchNext
  \/ \E r \in {"handled", "nothandled", "raise"} : HandlerReturn(r)
  \/ HandlePluginEventReturn
  \/ \E u \in Units, m \in Modules : EditFile(u, m)
  \/ MonitorChange
  \/ PostedReload
  \/ ReloadCommand
  \/ \E u \in Units : EnableCommand(u)
  \/ \E u \in Units : DisableCommand(u)

SpecPlug == Init /\ [][NextPlug]_vars

(***************************************************************************)
(* SpecDispatch: SpecPlug without the native plugin commands - every file  *)
(* of the directory stays enabled, and the reloads are those the watcher   *)
(* posts.                                                                  *)
(***************************************************************************)
NextDispatch ==
  \/ Run
  \/ \E ev \in Events : DispatchStart(ev)
  \/ DispatchNext
  \/ \E r \in {"handled", "nothandled", "raise"} : HandlerReturn(r)
  \/ HandlePluginEventReturn
  \/ \E u \in Units, m \in Modules : EditFile(u, m)
  \/ MonitorChange
  \/ PostedReload

SpecDispatch == Init /\ [][NextDispatch]_vars

\* the main loop runs handle_event on to its next await, the watcher thread
\* samples every second whatever the main loop does, and the main loop runs
\* a posted coroutine at its next suspension
FairWatch ==
  /\ SpecDispatch
  /\ WF_vars(DispatchNext) /\ WF_vars(HandlePluginEventReturn)
  /\ SF_vars(MonitorChange) /\ SF_vars(PostedReload)

(***************************************************************************)
(* SpecEntry: events that are not messages - notices and the lifecycle     *)
(* events - dispatched over every registry the reload command can build    *)
(* from edited files.                                                      *)
(***************************************************************************)
NextEntry ==
  \/ Run
  \/ \E u \in Units, m \in Modules : EditFile(u, m)
  \/ ReloadCommand
  \/ \E ev \in {NoticeEvent, LunarStopListen} : DispatchStart(ev)
  \/ DispatchNext
  \/ \E r \in {"handled", "nothandled", "raise"} : HandlerReturn(r)
  \/ HandlePluginEventReturn

SpecEntry == Init /\ [][NextEntry]_vars

(***************************************************************************)
(* SpecCommands: SpecPlug without the steps of the watcher thread - the    *)
(* reloads are those of the native commands.                               *)
(***************************************************************************)
NextCommands ==
  \/ Run
  \/ \E ev \in Events : DispatchStart(ev)
  \/ DispatchNext
  \/ \E r \in {"handled", "nothandled", "raise"} : HandlerReturn(r)
  \/ HandlePluginEventReturn
  \/ \E u \in Units, m \in Modules : EditFile(u, m)
  \/ ReloadCommand
  \/ \E u \in Units : EnableCommand(u)
  \/ \E u \in Units : DisableCommand(u)

SpecCommands == Init /\ [][NextCommands]_vars

(***************************************************************************)
(* SpecToggle: SpecCommands with no event arriving after the start - the   *)
(* directory and the registry go through the same states.                  *)
(***************************************************************************)
NextToggle ==
  \/ Run
  \/ DispatchNext
  \/ \E r \in {"handled", "nothandled", "raise"} : HandlerReturn(r)
  \/ HandlePluginEventReturn
  \/ \E u \in Units, m \in Modules : EditFile(u, m)
  \/ ReloadCommand
  \/ \E u \in Units : EnableCommand(u)
  \/ \E u \in Units : DisableCommand(u)

SpecToggle == Init /\ [][NextToggle]_vars

(***************************************************************************)
(* Claims about the connection manager.                                    *)
(***************************************************************************)
Registered(c) == calls[c].rid # NoId

\* C1: concurrent send(wait_for_response=True) calls register pairwise
\* distinct request ids, and a call that returns a response returns the
\* frame carrying its own request id, whatever order the frames arrive in.
C1_OwnResponse ==
  /\ \A c, d \in Callers :
       (c # d /\ Registered(c) /\ Registered(d)) => calls[c].rid # calls[d].rid
  /\ \A c \in Callers :
       calls[c].outcome = "response" =>
         /\ calls[c].resp.rid = calls[c].rid
         /\ \A d \in Callers \ {c} : calls[c].resp.rid # calls[d].rid

\* a later call has its answer while an earlier call still waits for its own
C1_Witness ==
  \E c, d \in Callers :
    /\ calls[c].outcome = "response"
    /\ calls[d].pc = "waiting" /\ calls[d].rid < calls[c].rid
    /\ calls[d].rid \in conn.sent

\* C2: a call whose timeout expired with no frame for its id fails with
\* Timeout, and once it has failed its id is not in the pending table.
C2_TimeoutRemoves ==
  \A c \in Callers :
    /\ (calls[c].pc = "done" /\ calls[c].timed_out) => calls[c].outcome = "Timeout"
    /\ calls[c].outcome = "Timeout" =>
         /\ calls[c].rid \notin conn.pending_requests
         /\ conn.fut[calls[c].rid].st = "cancelled"
         /\ calls[c].timed_out

C2_Witness ==
  \E c \in Callers : calls[c].outcome = "Timeout" /\ conn.close_pc = "idle"

\* the future of call c was cancelled by close(), not by its timeout
CancelledByClose(c) ==
  /\ Registered(c)
  /\ conn.fut[calls[c].rid].st = "cancelled"
  /\ ~calls[c].timed_out

\* C3: every request pending when close() runs fails with ConnectionClosed:
\* the send call waiting for it observes a ConnectionClosed failure.
C3_CloseFailsWithConnectionClosed ==
  \A c \in Callers :
    (calls[c].pc = "done" /\ CancelledByClose(c) /\ calls[c].rid \in conn.sent) =>
       calls[c].outcome = "ConnectionClosed"

\* C4: a send(wait_for_response=True) call ends with the response, a Timeout
\* or a ConnectionClosed failure and with nothing else.  An error-status
\* answer surfaced as a failure is read as the response, and the
\* ConnectionError of a session that is not connected as ConnectionClosed.
C4_OnlyThreeOutcomes ==
  \A c \in Callers :
    calls[c].pc = "done" =>
      calls[c].outcome \in {"response", "ServerError", "Timeout",
                            "ConnectionClosed", "NotConnected"}

InitialConnect == ~conn.is_reconnect /\ conn.conn_pc \in {"loop", "attempt", "sleep"}

\* C10: connect(is_reconnect=False) makes at most max_retries attempts,
\* returns True from the first attempt that succeeds, returns False after
\* max_retries failed attempts without attempting again, and terminates.
C10_InitialConnectBounded ==
  /\ [][InitialConnect =>
          /\ conn.attempts <= max_retries
          /\ conn.attempts = conn.retries + (IF conn.conn_pc = "attempt" THEN 1 ELSE 0)
          /\ (conn.conn_pc = "attempt" /\ conn'.websocket = "open")
               => (conn'.conn_pc = "idle" /\ conn'.connect_result = "True")
          /\ (conn'.conn_pc = "idle" /\ conn'.connect_result = "True")
               => (conn.conn_pc = "attempt" /\ conn'.websocket = "open")
          /\ (conn'.conn_pc = "idle" /\ conn'.connect_result = "False")
               => (conn.is_closing \/ conn.attempts = max_retries)
          /\ (conn.attempts = max_retries /\ conn'.conn_pc # conn.conn_pc)
               => conn'.conn_pc = "idle"
     ]_vars
  /\ (conn.conn_pc = "loop" /\ ~conn.is_reconnect) ~> (conn.conn_pc = "idle")

\* the initial connect gave up although nobody closed the session
C10_Witness ==
  conn.connect_result = "False" /\ ~conn.is_closing /\ conn.conn_pc = "idle"

Reconnecting ==
  conn.is_reconnect /\ conn.conn_pc \in {"loop", "attempt", "sleep"}

\* C11: a reconnect goes from a failed attempt to the sleep and to the next
\* attempt whatever the number of failed attempts, and ends without a
\* connection only once the session is closing; an attempt the transport
\* accepts while the session is not closing ends with the session connected
\* and a reader task running.
C11_ReconnectUnbounded ==
  /\ [][Reconnecting =>
          /\ conn'.conn_pc = "idle" => conn.is_closing
          /\ (conn.conn_pc = "loop" /\ conn'.conn_pc # "loop" /\ ~conn.is_closing)
               => conn'.conn_pc = "attempt"
          /\ (conn.conn_pc = "attempt" /\ conn'.conn_pc # "attempt"
                 /\ ~conn.is_closing)
               => \/ conn'.conn_pc = "sleep" /\ conn'.websocket = conn.websocket
                  \/ conn'.conn_pc = "selfawait" /\ conn'.websocket = "open"
          /\ (conn.conn_pc = "sleep" /\ conn'.conn_pc # "sleep" /\ ~conn.is_closing)
               => conn'.conn_pc = "loop"
       ]_vars
  /\ [][(conn.conn_pc = "selfawait" /\ conn'.conn_pc # "selfawait")
         => /\ conn'.reader = "reading"
            /\ conn'.listener_task = "task"
            /\ conn'.conn_pc = "idle"
            /\ ~conn.is_closing => conn'.websocket # "None"
       ]_vars
  /\ (Reconnecting /\ conn.conn_pc = "sleep")
        ~> (conn.conn_pc = "attempt" \/ conn.is_closing)
  /\ (conn.conn_pc = "selfawait")
        ~> (conn.reader = "reading" /\ conn.listener_task = "task")

\* a reconnect that is past max_retries failed attempts and still attempting
C11_Witness ==
  /\ Reconnecting /\ conn.conn_pc = "attempt"
  /\ conn.attempts > max_retries + 1
  /\ ~conn.is_closing

\* C12: at most one task is inside the iteration over the transport; a new
\* reader task is created only when no task is inside it, and the reader
\* task a successful reconnect replaces has been cancelled.
C12_OneReader ==
  /\ [](conn.readers \in {0, 1} /\ (conn.readers = 1 <=> conn.reader = "reading"))
  /\ [][conn'.readers > conn.readers
          => /\ conn.readers = 0
             /\ conn.reader # "reading"
             /\ conn.is_reconnect => conn.cancel_req
       ]_vars

\* a reader task reads after a drop and a successful reconnect
C12_Witness ==
  /\ conn.readers = 1 /\ conn.is_reconnect /\ conn.drops > 0
  /\ conn.conn_pc = "idle" /\ ~conn.is_closing

\* C13: when the reader's iteration over the transport ends because the
\* transport closed, by an error or by a normal end of the stream, the
\* reconnect is started if the session is not closing and the sentinel is
\* put on the inbound queue if it is closing.
C13_ReaderEndHandled ==
  [][(/\ conn.reader = "reading" /\ conn'.reader # "reading"
      /\ conn.websocket \in {"closedErr", "closedOk"}
      /\ ~conn.cancel_req)
       => IF conn.is_closing
            THEN /\ conn'.message_queue # << >>
                 /\ conn'.message_queue[Len(conn'.message_queue)] = Sentinel
            ELSE /\ conn'.reader = "reconnect"
                 /\ conn'.conn_pc = "loop" /\ conn'.is_reconnect
     ]_vars

\* C14: when close() completes the inbound queue holds the sentinel and
\* nothing else; from then on the consumer is handed no frame, and a
\* consumer in listen() ends.
C14_CloseLeavesSentinel ==
  /\ [][(conn.close_pc # "done" /\ conn'.close_pc = "done")
          => conn'.message_queue = <<Sentinel>>]_vars
  /\ [](conn.close_pc = "done"
          => \/ conn.message_queue = <<Sentinel>>
             \/ conn.message_queue = << >> /\ conn.consumer = "stopped")
  /\ [][(conn.close_pc = "done" /\ conn'.message_queue # conn.message_queue
          /\ conn.consumer = "listening")
          => conn'.consumer = "stopped" /\ conn'.message_queue = << >>]_vars
  /\ (conn.close_pc = "done" /\ conn.connect_result = "True")
        ~> (conn.consumer = "stopped")

\* close() has completed while the consumer is still in listen()
C14_Witness ==
  /\ conn.close_pc = "done" /\ conn.connect_result = "True"
  /\ conn.consumer = "listening" /\ conn.message_queue = <<Sentinel>>
  /\ conn.drops > 0

\* C15: frames reach the consumer one at a time in the order the transport
\* delivered them: the frame handed to the dispatch is the oldest of the
\* frames queued, and it is handed over only when the dispatch of the frame
\* before it has returned.
C15_ArrivalOrder ==
  /\ [](\A i \in DOMAIN conn.message_queue :
          \A j \in DOMAIN conn.message_queue :
            (i < j /\ conn.message_queue[i] # Sentinel
                   /\ conn.message_queue[j] # Sentinel)
              => conn.message_queue[i].n < conn.message_queue[j].n)
  /\ [][(conn'.dispatching # conn.dispatching /\ conn'.dispatching # 0)
          => /\ conn.dispatching = 0
             /\ conn'.dispatching = 1
             /\ conn.message_queue # << >>
             /\ conn'.message_queue = AfterGet(conn.message_queue)
       ]_vars

\* a frame is handed to the dispatch while a younger frame waits in the queue
C15_Witness ==
  /\ conn.dispatching = 1
  /\ conn.message_queue # << >>
  /\ conn.message_queue[1] # Sentinel

(***************************************************************************)
(* Claims about the plugin registry and the dispatch.                      *)
(***************************************************************************)
IsPrefix(s, t) == Len(s) <= Len(t) /\ SubSeq(t, 1, Len(s)) = s

\* the handlers of the list the dispatch started with that match its event
MatchingAtStart ==
  LET Match(plugin) == Invokes(disp.ev, plugin) IN SelectSeq(disp.start, Match)

\* C5: a dispatch in flight while a reload runs walks the list it started
\* with or the new list from its head: it skips no entry, invokes no handler
\* twice, mixes no entries of two lists, and is not aborted by the change of
\* the registry.
C5_SnapshotWalk ==
  disp.pc # "idle" =>
    /\ disp.result # "RuntimeError"
    /\ IsPrefix(disp.walked, disp.start) \/ IsPrefix(disp.walked, pm.plugins)
    /\ \A i, j \in 1..Len(disp.invoked) :
         disp.invoked[i].name = disp.invoked[j].name => i = j

\* C6: of two handlers invoked for the same event, the one with the smaller
\* priority value is invoked first.
C6_PriorityOrder ==
  \A i, j \in 1..Len(disp.invoked) :
    disp.invoked[i].priority < disp.invoked[j].priority => i < j

\* C7: when a dispatch ends, the handlers it invoked are the matching
\* handlers of its list, in order, up to and including the first that
\* reported handled, and it returned true iff an invoked handler reported
\* handled.
C7_FirstHandledStops ==
  disp.pc = "done" =>
    LET n == Len(disp.invoked) IN
    /\ IsPrefix(disp.invoked, MatchingAtStart)
    /\ Len(disp.outcomes) = n
    /\ \A i \in 1..(n - 1) : disp.outcomes[i] # "handled"
    /\ (disp.result = "True") <=> (n > 0 /\ disp.outcomes[n] = "handled")
    /\ disp.result # "True" => disp.invoked = MatchingAtStart

HandlerA == [name |-> "a", trigger |-> Ping, priority |-> 1,
             on_message |-> TRUE, on_lunar_event |-> FALSE, help |-> "ping"]
HandlerB == [name |-> "b", trigger |-> AnyKeyword, priority |-> 2,
             on_message |-> TRUE, on_lunar_event |-> TRUE, help |-> "any"]
TextPing == <<"/", "p", "i", "n", "g">>
TextHello == <<"h", "e", "l", "l", "o">>

\* C8: for a Message event, the walk invokes the entry it reaches iff the
\* entry exposes on_message and its trigger is the wildcard, or the event is
\* a command whose command equals the trigger, or the text starts with the
\* prefix followed by the trigger.  With A(priority 1, "ping") and
\* B(priority 2, wildcard), "/ping" invokes A first and "hello" invokes
\* only B.
C8_TriggerRule ==
  /\ [][(/\ disp.pc = "next"
         /\ disp.ev.kind = "message"
         /\ Len(disp'.walked) = Len(disp.walked) + 1)
        => LET plugin == disp'.walked[Len(disp'.walked)]
               ev == disp.ev
               matches ==
                 \/ plugin.trigger = AnyKeyword
                 \/ ev.is_command /\ ev.command = plugin.trigger
                 \/ StartsWith(ev.text, trigger_keyword \o plugin.trigger)
           IN IF plugin.on_message /\ matches
                THEN disp'.invoked = Append(disp.invoked, plugin)
                       /\ disp'.pc = "handler"
                ELSE disp'.invoked = disp.invoked /\ disp'.pc = "next"
       ]_vars
  /\ [](disp.start = <<HandlerA, HandlerB>> /\ disp.pc \in {"handler", "done"}
          => /\ disp.ev.text = TextPing => disp.invoked[1] = HandlerA
             /\ disp.ev.text = TextHello => disp.invoked = <<HandlerB>>)

\* the dispatch of "hello" to A and B has ended
C8_Witness ==
  /\ disp.pc = "done" /\ disp.result = "False"
  /\ disp.start = <<HandlerA, HandlerB>>
  /\ disp.ev.text = TextHello
  /\ disp.invoked = <<HandlerB>>

\* C9: a dispatch in which a handler raised, and no later handler reported
\* handled, goes on to invoke all the matching handlers of its list and
\* returns false.
C9_RaiseContinues ==
  (/\ disp.pc = "done"
   /\ \E i \in 1..Len(disp.outcomes) :
        /\ disp.outcomes[i] = "raise"
        /\ \A j \in (i + 1)..Len(disp.outcomes) : disp.outcomes[j] # "handled")
  => /\ disp.result = "False"
     /\ disp.invoked = MatchingAtStart

Names(plugins) == {plugins[i].name : i \in 1..Len(plugins)}

\* the directory without the enabled units that fail to load
WithoutFailing(p) ==
  [p EXCEPT !.disk = [u \in Units |->
      IF p.disk[u].form = "enabled" /\ ~p.disk[u].mod.ok
        THEN [p.disk[u] EXCEPT !.form = "absent"] ELSE p.disk[u]]]

\* C16: after a load every enabled unit that fails to load is in the failure
\* map and not in the registry, every enabled unit that loads is in the
\* registry, the registry is in ascending priority, and the registry is the
\* one a load of the directory without the failing units produces.
C16_FailureIsolated ==
  [][(pm'.plugins # pm.plugins \/ pm'.failed_plugins # pm.failed_plugins)
      => /\ \A u \in Units :
              pm'.disk[u].form = "enabled" =>
                IF pm'.disk[u].mod.ok
                  THEN u \in Names(pm'.plugins) /\ u \notin pm'.failed_plugins
                  ELSE u \in pm'.failed_plugins /\ u \notin Names(pm'.plugins)
         /\ \A i, j \in 1..Len(pm'.plugins) :
              i < j => pm'.plugins[i].priority <= pm'.plugins[j].priority
         /\ pm'.plugins = load_plugins(WithoutFailing(pm')).plugins
         /\ pm'.enabled_plugins = load_plugins(WithoutFailing(pm')).enabled_plugins
    ]_vars

\* a load has recorded a failing unit listed before a unit it loaded
C16_Witness ==
  /\ pm.failed_plugins # {}
  /\ pm.plugins # << >>
  /\ \E i, j \in 1..Len(pm.listing) :
       /\ i < j
       /\ pm.listing[i] \in pm.failed_plugins
       /\ pm.listing[j] \in Names(pm.plugins)

\* C17: a load never takes up a unit whose file name carries the "d_"
\* prefix: after every load no such unit is in the registry, in the enabled
\* list or in the failure map, and no dispatch invokes an entry of such a
\* unit.
C17_DisabledNeverLoaded ==
  /\ [][(pm'.plugins # pm.plugins \/ pm'.failed_plugins # pm.failed_plugins
         \/ pm'.disk # pm.disk)
         => \A u \in Units :
              pm'.disk[u].form = "disabled" =>
                /\ u \notin Names(pm'.plugins)
                /\ u \notin Names(Loaded(pm'))
                /\ u \notin {pm'.enabled_plugins[i] :
                               i \in 1..Len(pm'.enabled_plugins)}
                /\ u \notin pm'.failed_plugins
      ]_vars
  /\ [][disp'.invoked # disp.invoked /\ disp'.invoked # << >>
         => pm.disk[disp'.invoked[Len(disp'.invoked)].name].form # "disabled"
      ]_vars

\* with one unit disabled, a dispatch has invoked an entry point
C17_Witness ==
  /\ \E u \in Units : pm.disk[u].form = "disabled"
  /\ disp.pc = "handler"
  /\ disp.ev.kind = "message"

\* the directory as enable(u) / disable(u) is to leave it
Toggled(p, u, form, l) ==
  IF p.disk[u].form \in {form, "absent"} THEN p ELSE rename(p, u, form, l)

\* C18: enable(name) and disable(name) of a unit that is on disk end in the
\* state a full reload of the directory in the target form produces, also
\* when the unit is already enabled and loaded or already disabled; a second
\* application changes neither the directory nor the registry.
C18_ToggleReloads ==
  \A u \in Units, l \in Listings :
    (pm.running /\ disp.pc = "idle" /\ pm.disk[u].form # "absent") =>
      LET e == enable_plugin(pm, u, l)
          d == disable_plugin(pm, u, l)
      IN /\ e = reload_plugins(Toggled(pm, u, "enabled", l))
         /\ d = reload_plugins(Toggled(pm, u, "disabled", l))
         /\ \A l2 \in Listings :
              /\ enable_plugin(e, u, l2).disk = e.disk
              /\ enable_plugin(e, u, l2).plugins = e.plugins
              /\ disable_plugin(d, u, l2).disk = d.disk
              /\ disable_plugin(d, u, l2).plugins = d.plugins

Entry(plugins, u) == {plugins[i] : i \in {j \in 1..Len(plugins) : plugins[j].name = u}}

\* the registry entry of u is the one its file, as it is on disk, loads to
FileUnchanged(p, u) ==
  /\ p.disk[u].form = "enabled"
  /\ Entry(p.plugins, u) = {plugin_info(u, p.disk[u].mod)}

\* C19: for a loaded unit whose file is as it was loaded, disable(name)
\* leaves a registry, and so a next dispatch, without the unit, and a
\* following enable(name) puts the unit back with the trigger, the priority
\* and the help text it had.
C19_DisableEnableRestores ==
  (pm.running /\ disp.pc = "idle") =>
    \A u \in {v \in Units : FileUnchanged(pm, v)}, l \in Listings :
      \A d \in {disable_plugin(pm, u, l)} :
        /\ d.disk[u].form = "disabled"
        /\ Entry(d.plugins, u) = {}
        /\ \A ev \in Events : Entry(StartWalk(ev, d).it.dict, u) = {}
        /\ \A l2 \in Listings :
             \A e \in {enable_plugin(d, u, l2)} :
               /\ e.disk[u].form = "enabled"
               /\ Entry(e.plugins, u) = Entry(pm.plugins, u)
               /\ \A ev \in Events :
                    Entry(StartWalk(ev, e).it.dict, u) = Entry(pm.plugins, u)

\* disable and reload have run for one unit, and another unit is loaded
\* from a file that was saved while the runtime is up
C19_Witness ==
  /\ pm.running /\ disp.pc = "idle"
  /\ \E u, v \in Units :
       /\ u # v
       /\ pm.disk[v].form = "disabled"
       /\ FileUnchanged(pm, u)
       /\ pm.disk[u].mtime > 0
       /\ pm.disk[u].mod.help # "any"

\* the registry does not show what the backing file of u holds
Stale(p, u) ==
  /\ p.disk[u].form = "enabled"
  /\ IF p.disk[u].mod.ok
       THEN Entry(p.plugins, u) # {plugin_info(u, p.disk[u].mod)}
       ELSE u \notin p.failed_plugins \/ Entry(p.plugins, u) # {}

\* C20: with the watcher active and the main loop running, a change of the
\* backing file of a unit - a file unit or the setup.py of a directory unit -
\* leads to a reload after which the registry shows the content of the file.
C20_ChangeReloaded ==
  \A u \in Units :
    (pm.running /\ pm.monitoring_enabled /\ Stale(pm, u)) ~> ~Stale(pm, u)

\* C21: a step of the watcher thread - the one that posts a reload - writes
\* none of plugins, enabled_plugins, failed_plugins and file_timestamps,
\* the fields the reload on the main loop writes.
C21_WatcherWritesNothing ==
  [][pm'.posted > pm.posted
      => /\ pm'.plugins = pm.plugins
         /\ pm'.enabled_plugins = pm.enabled_plugins
         /\ pm'.failed_plugins = pm.failed_plugins
         /\ pm'.file_timestamps = pm.file_timestamps
    ]_vars

\* the classes a result of get_plugin_list reports the name n in
Classes(r, n) ==
  {c \in {"loaded", "failed"} :
     n \in DOMAIN r.enabled_on_disk /\ r.enabled_on_disk[n] = c}
  \cup (IF n \in r.disabled_on_disk THEN {"disabled"} ELSE {})

Reported(r, n) == n \in DOMAIN r.enabled_on_disk \/ n \in r.disabled_on_disk

\* C22: every name a result of get_plugin_list reports is in exactly one of
\* the classes loaded, failed-to-load and disabled-on-disk.
C22_ThreeDisjointClasses ==
  pm.report.called =>
    \A n \in Units :
      Reported(pm.report.result, n)
        => Cardinality(Classes(pm.report.result, n)) = 1

\* C23: the event-consumption loop stops only on an explicit close: a
\* failure while one frame is dispatched never stops it.  The loop leaves
\* the listening state only by taking the end marker that close() (or a
\* reader ended by close()) left in the queue.
C23_LoopStopsOnlyOnClose ==
  [][(conn.consumer = "listening" /\ conn'.consumer = "stopped")
       => /\ conn.is_closing
          /\ conn.message_queue # << >>
          /\ Head(conn.message_queue) = Sentinel]_vars

\* C24: when a frame with status ok answers a pending request, the awaiting
\* send call returns the data payload of that frame.
C24_ReturnsPayload ==
  \A c \in Callers :
    calls[c].outcome = "response"
      => calls[c].resp = conn.fut[calls[c].rid].val.data

\* C25: on every shutdown path the file watcher is stopped before the
\* outstanding tasks are cancelled and before the session is closed: the
\* session is never closed, and no task is cancelled by the cleanup, while
\* the watcher is still running.
C25_WatcherStoppedFirst ==
  (conn.is_closing \/ pm.cleanup \in {"close", "closing", "done"})
    => ~pm.monitoring_enabled

\* the frame names a request that is pending and unresolved
Matches(f) ==
  /\ f.rid # NoId
  /\ f.rid \in conn.pending_requests
  /\ conn.fut[f.rid].st = "pending"

\* the step resolved (status ok) or failed (status error) the request f names
Resolved(f) ==
  /\ conn'.fut[f.rid].st = (IF f.status = "error" THEN "exception" ELSE "result")
  /\ \A i \in Ids \ {f.rid} : conn'.fut[i] = conn.fut[i]

\* the step put f at the end of the queue
Enqueued(f) ==
  /\ Len(conn'.message_queue) = Len(conn.message_queue) + 1
  /\ SubSeq(conn'.message_queue, 1, Len(conn.message_queue)) = conn.message_queue
  /\ conn'.message_queue[Len(conn'.message_queue)].rid = f.rid
  /\ conn'.message_queue[Len(conn'.message_queue)].status = f.status

\* C26: each decoded inbound frame (a JSON object, with or without a request
\* id) is handled in exactly one way: a frame whose request id matches a
\* pending unresolved request resolves or fails that request and is not
\* enqueued; every other frame (no id, unknown id, id of a completed or
\* timed-out request) is enqueued and resolves nothing.  No frame does both
\* and none is lost.
C26_FrameOneWay ==
  [][\A f \in Frames :
       ListenFrame(f) =>
         IF Matches(f)
           THEN Resolved(f) /\ conn'.message_queue = conn.message_queue
           ELSE Enqueued(f) /\ conn'.fut = conn.fut]_vars

\* the answer to a request arrived twice: the first resolved the request,
\* the second is in the queue
C26_Witness ==
  /\ \E i \in Ids : conn.fut[i].st = "result"
  /\ \E k \in DOMAIN conn.message_queue : conn.message_queue[k].rid \in Ids

\* C27: every id in the pending table belongs to a send call that has not
\* yet returned or raised: once a call has ended, however it ended, its id is
\* not in the table.
C27_TableHoldsLiveCallsOnly ==
  \A r \in conn.pending_requests :
    \E c \in Callers : calls[c].rid = r /\ calls[c].pc \in {"sending", "waiting"}

\* C28: a frame that fails to decode is dropped: the step that logs it
\* resolves no pending request and enqueues nothing, and it leaves the reader
\* in the iteration over the same transport, ready for the frames after it.
C28_UndecodableDropped ==
  [][("undecodable" \notin conn.logged /\ "undecodable" \in conn'.logged)
       => /\ conn'.fut = conn.fut
          /\ conn'.pending_requests = conn.pending_requests
          /\ conn'.message_queue = conn.message_queue
          /\ conn'.reader = "reading" /\ conn'.readers = conn.readers
          /\ conn'.websocket = "open" /\ ~conn'.cancel_req]_vars

\* an undecodable frame was dropped while a request was pending, and the
\* reader is still taking frames
C28_Witness ==
  /\ "undecodable" \in conn.logged
  /\ conn.reader = "reading"
  /\ \E i \in conn.pending_requests : conn.fut[i].st = "pending"
  /\ conn.message_queue # << >>

\* the step is the consumer taking the oldest element of the queue
ConsumerTakes ==
  /\ conn.message_queue # << >>
  /\ conn'.message_queue = AfterGet(conn.message_queue)
  /\ conn.dispatching = 0
  /\ conn'.dispatching = Head(conn.message_queue).n

\* C29 (amended): on an unexpected disconnect followed by a reconnect, the
\* event frames already in the queue are kept: from the disconnect to the
\* restart of the listener, as long as close() has not been called, no step
\* changes the queue except the consumer taking its oldest element.
C29_QueueKeptAcrossReconnect ==
  [][(conn.reader = "reconnect" /\ ~conn'.is_closing)
       => (conn'.message_queue = conn.message_queue \/ ConsumerTakes)]_vars

\* the transport was lost and opened again, the listener is about to be
\* restarted, and a frame that arrived before the loss is still queued
C29_Witness ==
  /\ conn.reader = "reconnect" /\ conn.conn_pc = "selfawait"
  /\ conn.websocket = "open" /\ ~conn.is_closing
  /\ conn.message_queue # << >>
  /\ conn.message_queue[1] # Sentinel

\* C29: on an unexpected disconnect followed by a reconnect, the event frames
\* that were queued and not consumed are discarded: when the listener
\* restarts none of them is left for the consumer.
C29_QueueDiscardedOnReconnect ==
  [][(conn.reader = "reconnect" /\ conn'.reader = "reading")
       => \A i \in DOMAIN conn'.message_queue :
            conn'.message_queue[i] = Sentinel]_vars

\* C30: for a lifecycle event only the lifecycle entry point is invoked, on
\* handlers that expose one, and a truthy result ends the walk; for any other
\* event that is not a message only the message entry point of
\* wildcard-trigger handlers is invoked, never a literal-trigger handler.
C30_EntryPointRule ==
  /\ Len(disp.entries) = Len(disp.invoked)
  /\ \A i \in DOMAIN disp.invoked :
       IF IsLifecycle(disp.ev)
         THEN /\ disp.entries[i] = "on_lunar_event"
              /\ disp.invoked[i].on_lunar_event
              /\ (i <= Len(disp.outcomes) /\ disp.outcomes[i] = "handled")
                   => /\ i = Len(disp.invoked)
                      /\ disp.pc = "done" /\ disp.result = "True"
         ELSE disp.ev.kind # "message"
                => /\ disp.entries[i] = "on_message"
                   /\ disp.invoked[i].on_message
                   /\ disp.invoked[i].trigger = AnyKeyword

\* a lifecycle event walked past a handler without a lifecycle entry point
\* and was stopped by a handler that has one
C30_Witness ==
  /\ disp.ev = LunarStopListen
  /\ disp.result = "True"
  /\ Len(disp.walked) > Len(disp.invoked)
  /\ \E i \in DOMAIN disp.walked : ~disp.walked[i].on_lunar_event

\* the remainder a handler is due for a message: the text behind prefix and
\* trigger on a prefix match, the remainder of the classifier otherwise
DueRemainder(text, plugin) ==
  LET ev == _handle_message_event(text) IN ProcessedText(ev, plugin)

\* C31: the processed remainder an invoked handler observes depends only on
\* the event and on that handler's own trigger, whichever handlers were
\* walked before it in the same dispatch.
C31_RemainderOwnTrigger ==
  [][(disp.pc = "next" /\ disp'.pc = "handler" /\ disp.ev.kind = "message")
       => disp'.ev.processed_text =
            DueRemainder(disp.ev.text, disp'.invoked[Len(disp'.invoked)])]_vars

\* C32: after the k-th consecutive failed attempt the wait before the next
\* attempt is min(2^k, 60) seconds, for the initial connect and for a
\* reconnect alike; the waits never exceed 60 and never decrease, and an
\* initial connect does not wait after its last allowed attempt has failed.
C32_BackoffWait ==
  /\ [](conn.conn_pc = "sleep"
          => /\ conn.attempts >= 1
             /\ conn.wait_time = Min(2 ^ conn.attempts, 60)
             /\ conn.wait_time <= 60
             /\ conn.wait_time >= Min(2 ^ (conn.attempts - 1), 60))
  /\ [][(conn.conn_pc = "attempt" /\ ~conn.is_reconnect
           /\ conn.attempts = max_retries)
          => conn'.conn_pc # "sleep"]_vars

\* a reconnect waits the capped 60 seconds after its sixth failed attempt
C32_Witness ==
  /\ conn.conn_pc = "sleep" /\ conn.is_reconnect
  /\ conn.attempts = 6 /\ conn.wait_time = 60

\* C33: after stop_file_monitoring is called the watcher loop eventually
\* exits, and once stop_file_monitoring has returned the watcher thread has
\* terminated: it performs no further scan and posts no further reload.
C33_StoppedWatcherIsGone ==
  /\ (pm.stop # "none") ~> ~is_alive(pm)
  /\ [](pm.stop = "returned" => ~is_alive(pm))
  /\ [][pm.stop = "returned"
          => /\ ~(pm.thread = "scan" /\ pm'.thread = "test")
             /\ pm'.posted <= pm.posted]_vars

\* C34: closing is absorbing: once close() has been called the session never
\* becomes connected again - a connect call in progress or made later
\* returns False, no reader task is started, no reconnect is triggered, and
\* the transport reference, once cleared, stays cleared.
C34_ClosingAbsorbing ==
  [][conn.is_closing
       => /\ conn'.is_closing
          /\ conn'.readers <= conn.readers
          /\ (conn.reader # "reading" => conn'.reader # "reading")
          /\ (conn.conn_pc # "idle" /\ conn'.conn_pc = "idle" /\ ~conn.is_reconnect)
               => conn'.connect_result = "False"
          /\ (conn.conn_pc = "selfawait" => conn'.conn_pc = "selfawait")
          /\ (conn.reader # "reconnect" => conn'.reader # "reconnect")
          /\ (conn.websocket = "None" => conn'.websocket = "None")]_vars

\* the variants and the tags that select them: category, the category's
\* type tag, and the sub_type where one is needed ("*" where it is not)
Variants ==
  {<<"message", "private", "*", "PrivateMessageEvent">>,
   <<"message", "group", "*", "GroupMessageEvent">>,
   <<"notice", "group_upload", "*", "GroupUploadNoticeEvent">>,
   <<"notice", "group_admin", "*", "GroupAdminNoticeEvent">>,
   <<"notice", "group_increase", "*", "GroupIncreaseNoticeEvent">>,
   <<"notice", "group_decrease", "*", "GroupDecreaseNoticeEvent">>,
   <<"notice", "group_ban", "*", "GroupBanNoticeEvent">>,
   <<"notice", "friend_add", "*", "FriendAddNoticeEvent">>,
   <<"notice", "group_recall", "*", "GroupRecallNoticeEvent">>,
   <<"notice", "friend_recall", "*", "FriendRecallNoticeEvent">>,
   <<"notice", "notify", "poke", "GroupPokeNoticeEvent">>,
   <<"notice", "notify", "honor", "GroupHonorNoticeEvent">>,
   <<"request", "friend", "*", "FriendRequestEvent">>,
   <<"request", "group", "add", "GroupAddRequestEvent">>,
   <<"request", "group", "invite", "GroupInviteRequestEvent">>,
   <<"meta_event", "heartbeat", "*", "HeartbeatMetaEvent">>,
   <<"meta_event", "lifecycle", "*", "LifecycleMetaEvent">>}

Generic ==
  [c \in {"message", "notice", "request", "meta_event"} |->
     CASE c = "message" -> "MessageEvent"
       [] c = "notice" -> "NoticeEvent"
       [] c = "request" -> "RequestEvent"
       [] c = "meta_event" -> "MetaEvent"]

\* the type tag of the frame's own category
TypeTag(data) ==
  CASE data.post_type = "message" -> data.message_type
    [] data.post_type = "notice" -> data.notice_type
    [] data.post_type = "request" -> data.request_type
    [] data.post_type = "meta_event" -> data.meta_event_type

Selected(data) ==
  {v \in Variants : /\ v[1] = data.post_type
                    /\ v[2] = TypeTag(data)
                    /\ v[3] \in {"*", data.sub_type}}

Dispatches(k) == disp.pc = "idle" /\ disp'.pc # "idle" /\ disp'.ev.kind = k
DispatchesTransport ==
  disp.pc = "idle" /\ disp'.pc # "idle" /\ ~IsLifecycle(disp'.ev)

\* C36: LunarStartListen is dispatched exactly once, after the initial plugin
\* load and before any transport event is dispatched; LunarStopListen is
\* dispatched after the last transport event whenever the consumption loop
\* ends; neither is dispatched, and no plugin is loaded, if the initial
\* connect fails.
C36_LifecycleOrder ==
  /\ [][Dispatches("lunar")
          => /\ ~pm.running /\ pm'.running
             /\ pm'.plugins = load_plugins(pm').plugins
             /\ conn.dispatching = 0 /\ conn.consumer = "listening"]_vars
  /\ [][pm.running => pm'.running /\ ~Dispatches("lunar")]_vars
  /\ [][~pm.running /\ pm'.running => Dispatches("lunar")]_vars
  /\ [][DispatchesTransport => pm.running /\ conn.consumer = "listening"]_vars
  /\ [][(conn.consumer = "listening" /\ conn'.consumer = "stopped")
          => Dispatches("lunar_stop")]_vars
  /\ [](conn.connect_result = "False"
          => /\ ~pm.running /\ pm.plugins = <<>>
             /\ disp.pc = "idle" /\ disp.ev = NoEvent)

\* close() has ended the loop of a runtime with plugins, and a handler is
\* running on LunarStopListen
C36_Witness ==
  /\ conn.consumer = "stopped" /\ conn.close_pc = "done"
  /\ disp.ev = LunarStopListen /\ disp.pc = "handler"
  /\ pm.plugins # <<>>

\* the handler of the frame in hand is suspended in wait_for
HandlerAwaits == conn.dispatching # 0 /\ calls[1].pc = "waiting"

\* C37: a handler that awaits send(wait_for_response=True) inside a dispatch
\* is resolved by the reader task while the consumer is suspended in that
\* dispatch: the answer is never left in the queue for the consumer, the
\* call ends with the response, a server error or a timeout, the dispatch
\* completes and the consumer takes the next queued event.
C37_HandlerSendCompletes ==
  /\ [][(HandlerAwaits /\ ~FutDone(conn.fut[calls[1].rid]))
          => \A f \in Frames :
               (f.rid = calls[1].rid /\ ListenFrame(f))
                 => /\ FutDone(conn'.fut[calls[1].rid])
                    /\ conn'.message_queue = conn.message_queue]_vars
  /\ [][(HandlerAwaits /\ calls'[1].pc = "done")
          => calls'[1].outcome \in {"response", "ServerError", "Timeout"}]_vars
  /\ HandlerAwaits ~> (calls[1].pc = "done")
  /\ HandlerAwaits ~> (conn.dispatching = 0)
  /\ (conn.dispatching = 0 /\ calls[1].pc = "done"
        /\ conn.message_queue # <<>> /\ conn.consumer = "listening")
       ~> (conn.dispatching # 0 \/ conn.consumer = "stopped")

\* the reader has resolved the call of a handler while the consumer is
\* suspended in the dispatch and the next event waits in the queue
C37_Witness ==
  /\ HandlerAwaits
  /\ conn.fut[calls[1].rid].st = "result"
  /\ conn.message_queue # <<>>
  /\ conn.consumer = "listening"

InRegistry(p, u) == \E i \in 1..Len(p.plugins) : p.plugins[i].name = u

\* C38: when enable(name) returns True the unit is in the loaded registry,
\* when disable(name) returns True the unit is not in it - also for a unit
\* that fails to load; when either returns False because the unit was not
\* found, no file is renamed and the registry is unchanged.
C38_ToggleResultMatchesRegistry ==
  /\ [][\A u \in Units, l \in Listings :
          /\ (EnableCommand(u) /\ pm' = enable_plugin(pm, u, l)
                /\ enable_plugin_returns(pm, u, l))
               => InRegistry(pm', u)
          /\ (DisableCommand(u) /\ pm' = disable_plugin(pm, u, l)
                /\ disable_plugin_returns(pm, u, l))
               => ~InRegistry(pm', u)]_vars
  /\ [](\A u \in Units, l \in Listings :
          /\ ~enable_plugin_returns(pm, u, l) => enable_plugin(pm, u, l) = pm
          /\ ~disable_plugin_returns(pm, u, l) => disable_plugin(pm, u, l) = pm)

\* the user is the root user, a super user or a manager
IsManager(cfg, user) ==
  user \in {cfg.root_user} \cup cfg.super_users \cup cfg.manager_users
\* the user is the root user or a super user
IsSuper(cfg, user) == user \in {cfg.root_user} \cup cfg.super_users

\* C39: enable, disable, reload and restart issued by a user who is neither
\* root nor super user nor manager rename no plugin file, reload nothing and
\* restart nothing; add-manager and remove-manager issued by a user who is
\* neither root nor super user leave the manager list as it is.  pm.issued
\* names the last command and its sender; a step that is neither the start
\* of the runtime nor an edit of a file is a step of that command or of a
\* dispatch.
C39_DeniedCommandsChangeNothing ==
  [][(pm.running /\ pm'.edits = pm.edits)
       => /\ (/\ pm'.issued.cmd \in PluginCommands
               /\ ~IsManager(pm.config, pm'.issued.user))
              => /\ pm'.disk = pm.disk
                 /\ pm'.plugins = pm.plugins
                 /\ pm'.failed_plugins = pm.failed_plugins
                 /\ pm'.file_timestamps = pm.file_timestamps
                 /\ pm'.cleanup = pm.cleanup
          /\ (/\ pm'.issued.cmd \in ManagerCommands
               /\ ~IsSuper(pm.config, pm'.issued.user))
              => pm'.config = pm.config]_vars

\* a user who was a manager and was removed from the list has sent the
\* reload command after a plugin file was edited: the file is still stale
C39_Witness ==
  /\ pm.issued = [cmd |-> "_reload_plugins", user |-> 3]
  /\ 3 \notin pm.config.manager_users
  /\ \E u \in Units : pm.file_timestamps[u].form = "enabled"
                        /\ pm.file_timestamps[u].mtime # pm.disk[u].mtime

\* C40: a message whose command names a native command is handled by the
\* native command and never passed to the plugin dispatcher - no plugin is
\* invoked for it, neither a wildcard plugin nor one whose trigger is the
\* command; every other message event is passed to the dispatcher exactly
\* once.
C40_NativeBlocksDispatch ==
  /\ [][\A text \in Texts \cup NativeTexts :
          HandleMessageEvent(text)
            => IF text \in NativeTexts
                 THEN conn'.handed = "native" /\ disp' = disp
                 ELSE /\ conn'.handed = "dispatcher"
                      /\ disp'.pc = "next" /\ disp'.ev.text = text]_vars
  /\ [][conn.handed = "native" => disp' = disp /\ disp.pc = "idle"]_vars
  /\ [][conn.handed = "dispatcher"
          => ~(disp.pc = "idle" /\ disp'.pc # "idle")]_vars
  /\ [][(conn.dispatching # 0 /\ conn'.dispatching = 0)
          => conn.handed # "none"]_vars

\* the help command is in hand while a wildcard plugin and a plugin whose
\* trigger is "help" are loaded, and no plugin has been invoked
C40_Witness ==
  /\ conn.handed = "native"
  /\ \E i \in 1..Len(pm.plugins) : pm.plugins[i].trigger = Help
  /\ \E i \in 1..Len(pm.plugins) : pm.plugins[i].trigger = AnyKeyword
  /\ disp.invoked = <<>> /\ disp.pc = "idle"

====
